---- MODULE Spec2Model ----
(***************************************************************************)
(* Slack community-moderation bot: the three-stage violation detector      *)
(* (NG patterns -> retrieval -> LLM judgment), the message-event pass that *)
(* stages violations into the Notion ledger and alerts the admins, and the *)
(* approve / dismiss button handlers.                                      *)
(*                                                                         *)
(* Strings that the code parses (message texts, regex patterns, article    *)
(* ids and titles) are sequences of one-character strings.  A Python None  *)
(* is NoneStr in a field holding atomic strings and None in a field        *)
(* holding a sequence.  Confidences and similarities are fixed-point       *)
(* integers (percent, thousandths).                                        *)
(***************************************************************************)
EXTENDS Integers, Sequences, FiniteSets, TLC

VARIABLES
    impl,               \* which detector source is loaded: src/lambda or src/app
    ng_patterns,        \* ViolationDetector.ng_patterns (loaded once)
    embedding_cache,    \* ViolationDetector._embedding_cache : article id -> vector
    det,                \* record of the last detect() call and what it did
    ledger,             \* the Notion violation-log database: sequence of pages
    click,              \* record of the last button click and what its handler did
    passes,             \* the message-event passes in flight: where each one stands
    overlap,            \* history: two passes for one post were in flight together
    sweep,              \* the reminder sweep in progress: its page list, position, counters
    req,                \* the last HTTP request to a handler and how it was answered
    slack,              \* per ledger page: the posts in its origin thread, its alert buttons
    origin              \* one origin message, the 投稿リンク stored for it, what was parsed back

detVars == <<impl, ng_patterns, embedding_cache, det>>

vars == <<impl, ng_patterns, embedding_cache, det, ledger, click, passes, overlap, sweep, req, slack, origin>>

-----------------------------------------------------------------------------
(* Bounds of the model *)

MaxTextLen == 2

-----------------------------------------------------------------------------
(* Python values *)

NoneStr == "<None>"
None == [some |-> FALSE, v |-> <<>>]
Some(x) == [some |-> TRUE, v |-> x]

RECURSIVE SeqsUpTo(_, _)
SeqsUpTo(S, n) ==
    IF n = 0 THEN {<<>>}
    ELSE LET shorter == SeqsUpTo(S, n - 1)
         IN  shorter \cup {Append(s, c) : s \in {t \in shorter : Len(t) = n - 1}, c \in S}

Alphabet == {"a", "A", "b", "\\"}
Texts == SeqsUpTo(Alphabet, MaxTextLen)

\* course=None is the empty string (falsy)
Courses == {"", "GCI", "DL"}

-----------------------------------------------------------------------------
(* Static data: articles.json and ng_patterns.json *)

Article(id, title, category, content, keywords, has_courses, courses) ==
    [id |-> id, article |-> title, category |-> category, content |-> content,
     keywords |-> keywords, has_courses |-> has_courses, courses |-> courses]

articles == <<
    Article(<<"A", "-", "1">>, <<"t", "1">>, "spam", <<"a">>, <<>>, TRUE, {"ALL"}),
    Article(<<"A", "-", "2">>, <<"t", "2">>, "ad", <<"b">>, <<>>, TRUE, {"GCI"}),
    Article(<<"c", "-", "8", "-", "i">>, <<"t", "3">>, "drive", <<"a">>, <<"b">>, TRUE, {"DL"}),
    Article(<<"1", "-", "i">>, <<"t", "4">>, "other", <<"x">>, <<>>, FALSE, {}),
    Article(<<"B", "-", "1">>, <<"t", "5">>, "abuse", <<"n">>, <<>>, TRUE, {"GCI", "DL"}) >>

Pattern(pattern, well_formed, article_id, category, has_courses, courses) ==
    [pattern |-> pattern, well_formed |-> well_formed, article_id |-> article_id,
     category |-> category, has_courses |-> has_courses, courses |-> courses]

NGPatternsA ==
    << Pattern(<<"a", "b">>, TRUE, <<"A", "-", "2">>, "ad", TRUE, {"GCI"}),
       Pattern(<<"(">>, FALSE, <<"A", "-", "1">>, "spam", TRUE, {"ALL"}),
       Pattern(<<"B">>, TRUE, <<"B", "-", "1">>, "abuse", TRUE, {"DL"}),
       Pattern(<<"a", "a">>, TRUE, <<"A", "-", "1">>, "spam", FALSE, {}) >>

NGPatternsB ==
    << Pattern(<<"A">>, TRUE, <<"Z", "-", "9">>, "spam", TRUE, {"ALL"}),
       Pattern(<<"b">>, TRUE, <<"A", "-", "2">>, "ad", TRUE, {"GCI", "DL"}) >>

PatternFiles == {NGPatternsA, NGPatternsB}

\* p.get("courses", ["ALL"])
CoursesOrAll(x) == IF x.has_courses THEN x.courses ELSE {"ALL"}

\* self._article_title_by_id.get(aid)
article_title_by_id(aid) ==
    IF \E i \in 1..Len(articles) : articles[i].id = aid
    THEN Some(articles[CHOOSE i \in 1..Len(articles) : articles[i].id = aid].article)
    ELSE None

\* self._article_id_by_title.get(title)
article_id_by_title(title) ==
    IF \E i \in 1..Len(articles) : articles[i].article = title
    THEN Some(articles[CHOOSE i \in 1..Len(articles) :
                         /\ articles[i].article = title
                         /\ \A j \in (i + 1)..Len(articles) : articles[j].article # title].id)
    ELSE None

-----------------------------------------------------------------------------
(* The button-click handlers of app_alert *)

\* not x, for a value that is a string or None
Falsy(x) == x \in {"", NoneStr}

\* d.get(k) on a decoded token
TokGet(obj, k) == IF k \in DOMAIN obj THEN obj[k] ELSE NoneStr

\* The value string of a button: absent, a JSON object, text that is not JSON, or
\* JSON that is not an object
NoObj == [k \in {} |-> ""]
ValueAbsent == [kind |-> "absent", obj |-> NoObj]
ValueGarbage == [kind |-> "garbage", obj |-> NoObj]
ValueNonObject == [kind |-> "nonobject", obj |-> NoObj]
\* json.dumps(obj)
json_dumps(obj) == [kind |-> "object", obj |-> obj]

\* One external call a handler attempted, with what the service answered
CallRec(op, channel, ts, page, status, content, stamped, responder, outcome) ==
    [op |-> op, channel |-> channel, ts |-> ts, page |-> page, status |-> status,
     content |-> content, stamped |-> stamped, responder |-> responder, outcome |-> outcome]

PostCall(channel, thread_ts, content, outcome) ==
    CallRec("chat_postMessage", channel, thread_ts, "", "", content, FALSE, NoneStr, outcome)
UpdateStatusCall(page, status, stamped, responder, outcome) ==
    CallRec("update_status", "", "", page, status, "", stamped, responder, outcome)
ChatUpdateCall(channel, ts, content, outcome) ==
    CallRec("chat_update", channel, ts, "", "", content, FALSE, NoneStr, outcome)

\* what a handler did: the calls in order and what it handed back
Handled(calls, status, body, value, raised) ==
    [calls |-> calls, status |-> status, body |-> body, value |-> value, raised |-> raised]

\* the decoded token of lambda_handler: json.loads(actions[0].get("value", "{}"))
HandlerTokenRaises(v) == v.kind \in {"garbage", "nonobject"}

\* an approve branch that edits the admin message before it replies and skips the ledger
lambda_approve_EditFirst(tok, container, out) ==
    Handled(<<ChatUpdateCall(container.channel_id, container.message_ts, "approved", out.edit),
              PostCall(TokGet(tok, "origin_channel"), TokGet(tok, "origin_ts"),
                       "reply_prefix", out.post)>>, 200, "OK", TRUE, FALSE)

\* the approve branch of lambda_handler
lambda_approve(tok, container, out) ==
    LET post == PostCall(TokGet(tok, "origin_channel"), TokGet(tok, "origin_ts"),
                         "reply_prefix", out.post)
        page == TokGet(tok, "notion_page_id")
        upd == IF Falsy(page) THEN <<>>
               ELSE <<UpdateStatusCall(page, "Approved", FALSE, NoneStr, out.upd)>>
        edit == ChatUpdateCall(container.channel_id, container.message_ts,
                               "approved", out.edit)
    IN  IF out.post # "ok" THEN Handled(<<post>>, 200, "error_handled", FALSE, FALSE)
        ELSE IF Falsy(container.channel_id) \/ Falsy(container.message_ts)
             THEN Handled(<<post>> \o upd, 200, "OK", TRUE, FALSE)
        ELSE IF out.edit # "ok"
             THEN Handled(<<post>> \o upd \o <<edit>>, 200, "error_handled", FALSE, FALSE)
        ELSE Handled(<<post>> \o upd \o <<edit>>, 200, "OK", TRUE, FALSE)

\* a dismiss branch that also replies in the origin thread
lambda_dismiss_Replies(tok, container, out) ==
    Handled(<<UpdateStatusCall(TokGet(tok, "notion_page_id"), "Dismissed", FALSE, NoneStr, out.upd),
              PostCall(TokGet(tok, "origin_channel"), TokGet(tok, "origin_ts"),
                       "reply_prefix", out.post)>>, 200, "OK", TRUE, FALSE)

\* the dismiss branch of lambda_handler
lambda_dismiss(tok, container, out) ==
    LET page == TokGet(tok, "notion_page_id")
        upd == UpdateStatusCall(page, "Dismissed", FALSE, NoneStr, out.upd)
        edit == ChatUpdateCall(container.channel_id, container.message_ts,
                               "dismissed", out.edit)
    IN  IF Falsy(page) THEN Handled(<<>>, 200, "Missing notion_page_id", FALSE, FALSE)
        ELSE IF Falsy(container.channel_id) \/ Falsy(container.message_ts)
             THEN Handled(<<upd>>, 200, "OK", TRUE, FALSE)
        ELSE IF out.edit # "ok"
             THEN Handled(<<upd, edit>>, 200, "error_handled", FALSE, FALSE)
        ELSE Handled(<<upd, edit>>, 200, "OK", TRUE, FALSE)

\* lambda_handler(event, context) for a request whose body parsed and whose signature
\* is valid
lambda_handler(payload, out) ==
    IF payload.actions = <<>> THEN Handled(<<>>, 200, "OK", TRUE, FALSE)
    ELSE IF payload.actions[1].action_id \notin {"approve_violation", "dismiss_violation"}
         THEN Handled(<<>>, 200, "OK", TRUE, FALSE)
    ELSE IF HandlerTokenRaises(payload.actions[1].value)
         THEN Handled(<<>>, 200, "Value parse error", FALSE, FALSE)
    ELSE IF /\ payload.actions[1].action_id = "approve_violation"
            /\ \/ Falsy(TokGet(payload.actions[1].value.obj, "origin_channel"))
               \/ Falsy(TokGet(payload.actions[1].value.obj, "origin_ts"))
         THEN Handled(<<>>, 200, "Missing origin info", FALSE, FALSE)
    ELSE IF payload.actions[1].action_id = "approve_violation"
         THEN lambda_approve(payload.actions[1].value.obj, payload.container, out)
    ELSE lambda_dismiss(payload.actions[1].value.obj, payload.container, out)

\* the values of the three dropdowns of the policy_ref_block in payload.state
Selection(regulation, article, item) ==
    [regulation |-> regulation, article |-> article, item |-> item]

NoSelection == Selection(NoneStr, NoneStr, NoneStr)

\* parse_action_context(payload): none, or the ActionContext
NoContext ==
    [some |-> FALSE, action_id |-> "", value |-> ValueAbsent,
     admin_channel |-> NoneStr, admin_message_ts |-> NoneStr,
     selected_regulation |-> NoneStr, selected_article |-> NoneStr, selected_item |-> NoneStr]

\* _load_articles_list(): the articles file of app_alert
load_articles_list == << [id |-> "A-1", regulation |-> "R1"], [id |-> "A-2", regulation |-> "R2"] >>

\* _find_article_by_id(article_id): the position of the article, 0 for None
find_article_by_id(article_id) ==
    IF Falsy(article_id) \/ \A i \in 1..Len(load_articles_list) : load_articles_list[i].id # article_id
    THEN 0
    ELSE CHOOSE i \in 1..Len(load_articles_list) :
            /\ load_articles_list[i].id = article_id
            /\ \A k \in 1..(i - 1) : load_articles_list[k].id # article_id

\* _format_ref(selected_regulation, selected_article, selected_item): the parts of
\* the reference; "規約不明" is written "unknown_regulation"
format_ref(selected_regulation, selected_article, selected_item) ==
    [regulation |-> IF Falsy(selected_regulation) THEN "unknown_regulation" ELSE selected_regulation,
     article |-> IF Falsy(selected_article) \/ selected_article = "special" THEN NoneStr
                 ELSE selected_article,
     item |-> IF Falsy(selected_article) \/ selected_article = "special" THEN NoneStr
              ELSE IF Falsy(selected_item) \/ selected_item \in {"0", "None"} THEN NoneStr
              ELSE selected_item]

\* build_warning_text(origin_user, selected_regulation, selected_article,
\* selected_item) as handle_approve_violation calls it
build_warning_text(origin_user, ctx) ==
    [text |-> "warning_text", mention |-> origin_user,
     ref |-> format_ref(ctx.selected_regulation, ctx.selected_article, ctx.selected_item)]

\* a parser that reads the last action element instead of the first
parse_action_context_LastAction(payload) ==
    IF payload.type # NoneStr /\ payload.type # "block_actions" THEN NoContext
    ELSE IF payload.actions = <<>> THEN NoContext
    ELSE [some |-> TRUE, action_id |-> payload.actions[Len(payload.actions)].action_id,
          value |-> payload.actions[Len(payload.actions)].value,
          admin_channel |-> payload.container.channel_id,
          admin_message_ts |-> payload.container.message_ts,
          selected_regulation |-> payload.state.regulation,
          selected_article |-> payload.state.article,
          selected_item |-> payload.state.item]

parse_action_context(payload) ==
    IF payload.type # NoneStr /\ payload.type # "block_actions" THEN NoContext
    ELSE IF payload.actions = <<>> THEN NoContext
    ELSE [some |-> TRUE, action_id |-> payload.actions[1].action_id,
          value |-> IF payload.actions[1].value.kind = "object"
                    THEN payload.actions[1].value
                    ELSE IF payload.actions[1].value.kind = "nonobject"
                         THEN ValueNonObject
                         ELSE json_dumps(NoObj),
          admin_channel |-> payload.container.channel_id,
          admin_message_ts |-> payload.container.message_ts,
          selected_regulation |-> payload.state.regulation,
          selected_article |-> payload.state.article,
          selected_item |-> payload.state.item]

\* an approve that replies before it looks at the origin coordinates
handle_approve_violation_PostsFirst(ctx, responder_id, out) ==
    Handled(<<PostCall(TokGet(ctx.value.obj, "origin_channel"), TokGet(ctx.value.obj, "origin_ts"),
                       "warning_text", out.post)>>, 0, "", out.post = "ok", FALSE)

\* handle_approve_violation(ctx, slack, notion, reply_text, responder_id)
handle_approve_violation(ctx, responder_id, out) ==
    LET tok == ctx.value.obj
        post == PostCall(TokGet(tok, "origin_channel"), TokGet(tok, "origin_ts"),
                         build_warning_text(TokGet(tok, "origin_user"), ctx), out.post)
        page == TokGet(tok, "notion_page_id")
        upd == IF Falsy(page) THEN <<>>
               ELSE <<UpdateStatusCall(page, "Approved", TRUE, responder_id, out.upd)>>
        edit == ChatUpdateCall(ctx.admin_channel, ctx.admin_message_ts, "approved", out.edit)
    IN  IF ctx.value.kind # "object" THEN Handled(<<>>, 0, "", FALSE, TRUE)
        ELSE IF Falsy(TokGet(tok, "origin_channel")) \/ Falsy(TokGet(tok, "origin_ts"))
             THEN Handled(<<>>, 0, "", FALSE, FALSE)
        ELSE IF out.post # "ok" THEN Handled(<<post>>, 0, "", FALSE, FALSE)
        ELSE IF Falsy(ctx.admin_channel) \/ Falsy(ctx.admin_message_ts)
             THEN Handled(<<post>> \o upd, 0, "", TRUE, FALSE)
        ELSE Handled(<<post>> \o upd \o <<edit>>, 0, "", out.edit = "ok", FALSE)

\* handle_dismiss_violation(ctx, slack, notion, responder_id)
handle_dismiss_violation(ctx, responder_id, out) ==
    LET page == TokGet(ctx.value.obj, "notion_page_id")
        upd == IF Falsy(page) THEN <<>>
               ELSE <<UpdateStatusCall(page, "Dismissed", FALSE, responder_id, out.upd)>>
        edit == ChatUpdateCall(ctx.admin_channel, ctx.admin_message_ts, "dismissed", out.edit)
    IN  IF ctx.value.kind # "object" THEN Handled(<<>>, 0, "", FALSE, TRUE)
        ELSE IF Falsy(ctx.admin_channel) \/ Falsy(ctx.admin_message_ts)
             THEN Handled(upd, 0, "", TRUE, FALSE)
        ELSE Handled(upd \o <<edit>>, 0, "", out.edit = "ok", FALSE)

\* parse_action_context followed by the handler of the action id
actions_entry(payload, out) ==
    LET ctx == parse_action_context(payload)
    IN  IF ~ctx.some THEN Handled(<<>>, 0, "no_context", FALSE, FALSE)
        ELSE IF ctx.action_id = "approve_violation"
             THEN handle_approve_violation(ctx, payload.user, out)
        ELSE IF ctx.action_id = "dismiss_violation"
             THEN handle_dismiss_violation(ctx, payload.user, out)
        ELSE Handled(<<>>, 0, "unknown_action", FALSE, FALSE)

\* the two entry points of app_alert
Vias == {"lambda_handler", "actions"}

handle_click(via, payload, out) ==
    IF via = "lambda_handler" THEN lambda_handler(payload, out) ELSE actions_entry(payload, out)

\* NotionClient._update_page applied to the ledger for the update_status calls that
\* the service accepted
RECURSIVE ApplyUpdates(_, _)
ApplyUpdates(pages, calls) ==
    IF calls = <<>> THEN pages
    ELSE LET c == Head(calls)
             hit(pg) == c.op = "update_status" /\ c.outcome = "ok" /\ pg.page_id = c.page
         IN  ApplyUpdates(
                 [i \in 1..Len(pages) |->
                     IF hit(pages[i])
                     THEN [pages[i] EXCEPT !.status = c.status,
                             !.warning_sent_at = IF c.stamped THEN TRUE ELSE @,
                             !.responder = IF c.responder # NoneStr THEN c.responder ELSE @]
                     ELSE pages[i]],
                 Tail(calls))

\* Button-click payloads
Page(page_id, post_id, status, warning_sent_at, responder) ==
    [page_id |-> page_id, post_id |-> post_id, status |-> status,
     warning_sent_at |-> warning_sent_at, responder |-> responder]

Field(k, v) == IF v = NoneStr THEN NoObj ELSE (k :> v)

TokenObjs ==
    { Field("origin_channel", oc) @@ Field("origin_ts", ots) @@ Field(pk[1], pk[2]) :
        oc \in {NoneStr, "C1"}, ots \in {NoneStr, "100.1"},
        pk \in {<<"notion_page_id", NoneStr>>, <<"notion_page_id", "P1">>,
                <<"notion_page_id", "">>, <<"page_id", "P1">>} }

ButtonValues == {ValueAbsent, ValueGarbage, ValueNonObject} \cup {json_dumps(t) : t \in TokenObjs}

ActionIds == {"approve_violation", "dismiss_violation", "approve_warning"}

Container(channel_id, message_ts) == [channel_id |-> channel_id, message_ts |-> message_ts]

Containers == {Container(NoneStr, NoneStr), Container("ADM", NoneStr), Container("ADM", "900.1")}

\* a payload whose state holds no selection
Payload(type, actions, container, user) ==
    [type |-> type, actions |-> actions, container |-> container, user |-> user,
     state |-> NoSelection]

Button(action_id, value) == [action_id |-> action_id, value |-> value]

PayloadTypes == {NoneStr, "block_actions", "view_submission"}

Responders == {NoneStr, "U9"}

\* payloads whose first action has the given action id
PayloadsFor(action_id) ==
    { Payload(ty, <<Button(action_id, v)>>, c, u) :
        ty \in PayloadTypes, v \in ButtonValues, c \in Containers, u \in Responders }

PayloadsWithoutAction ==
    { Payload(ty, <<>>, c, u) : ty \in PayloadTypes, c \in Containers, u \in Responders }

\* payloads with two action elements
FullToken == ("origin_channel" :> "C1") @@ ("origin_ts" :> "100.1") @@ ("notion_page_id" :> "P1")

PayloadsWithTwoActions ==
    { Payload(ty, <<Button(a1, v1), b2>>, Container("ADM", "900.1"), "U9") :
        ty \in PayloadTypes, a1 \in ActionIds,
        v1 \in {ValueAbsent, ValueGarbage, json_dumps(FullToken)},
        b2 \in {Button("dismiss_violation", json_dumps(("notion_page_id" :> "P2"))),
                Button("approve_violation", ValueGarbage)} }

\* the selections an admin can leave in the dropdowns
Selections ==
    {NoSelection, Selection("R1", "11", "4"), Selection("R1", "11", "0"),
     Selection("R1", "special", NoneStr), Selection(NoneStr, "11", NoneStr)}

\* the detected article a token can carry: none, a known one, an unknown one
DetectedIds == {NoneStr, "A-1", "Z-9"}

\* approve clicks on a full alert, with a selection and a detected article id
PayloadsWithSelection ==
    { [Payload("block_actions",
               <<Button("approve_violation",
                        json_dumps(FullToken @@ Field("origin_user", "U1") @@ Field("article_id", aid)))>>,
               Container("ADM", "900.1"), "U9") EXCEPT !.state = sel] :
        sel \in Selections, aid \in DetectedIds }

\* what Slack and Notion answer to the calls of one click: chat_postMessage succeeds,
\* raises a not-found SlackApiError or raises another error; update_status returns
\* True or False; chat_update succeeds or raises
Outcomes ==
    [post : {"ok", "not_found", "error"}, upd : {"ok", "fail"}, edit : {"ok", "error"}]

AllOk == [post |-> "ok", upd |-> "ok", edit |-> "ok"]

ClickIdle ==
    [phase |-> "idle", via |-> "", payload |-> Payload(NoneStr, <<>>, Container(NoneStr, NoneStr), NoneStr),
     out |-> AllOk, ctx |-> NoContext, h |-> Handled(<<>>, 0, "", FALSE, FALSE)]

\* Message-event passes
MaxPages == 2

Passes == {1, 2}

NoAlert == [posted |-> FALSE, channel |-> "", buttons |-> <<>>, page |-> NoneStr]

PassRec(pc, ts, text, kind, existing, dup, detected, violation, created, alert) ==
    [pc |-> pc, ts |-> ts, text |-> text, kind |-> kind, existing |-> existing, dup |-> dup,
     detected |-> detected, violation |-> violation, created |-> created, alert |-> alert]

PassIdle == PassRec("idle", "", <<>>, "", 0, FALSE, FALSE, FALSE, NoneStr, NoAlert)

NoPasses == [p \in Passes |-> PassIdle]

\* The reminder sweep
\* stats of process_reminders
Stats(queried, warned, skipped_not_elapsed, skipped_no_link, already_deleted, reminded, errors) ==
    [queried |-> queried, warned |-> warned, skipped_not_elapsed |-> skipped_not_elapsed,
     skipped_no_link |-> skipped_no_link, already_deleted |-> already_deleted,
     reminded |-> reminded, errors |-> errors]

ZeroStats == Stats(0, 0, 0, 0, 0, 0, 0)

\* no HTTP request is being handled
ReqIdle == [phase |-> "idle"]

\* no origin thread and no admin alert is followed
NoSlack == <<>>

\* no message is being stored or parsed back
LinkIdle == [phase |-> "idle"]

\* no sweep is running; the clock counts hours
SweepIdle ==
    [phase |-> "idle", now |-> 100, pages |-> <<>>, i |-> 1, stats |-> ZeroStats, log |-> <<>>,
     status |-> 0, body |-> ""]

-----------------------------------------------------------------------------
(* Step 1: the Pattern Matcher *)

Lower(c) == CASE c = "A" -> "a" [] c = "B" -> "b" [] OTHER -> c

\* re.search(pattern, text, re.IGNORECASE) for a literal pattern
re_search(pattern, text) ==
    \E i \in 1..(Len(text) + 1) :
        /\ i + Len(pattern) - 1 <= Len(text)
        /\ \A k \in 1..Len(pattern) : Lower(text[i + k - 1]) = Lower(pattern[k])

NoMatch == [found |-> FALSE, pattern |-> <<>>, article_id |-> <<>>, category |-> NoneStr]

\* the loop body of _check_ng_patterns for pattern p
PatternHits(p, text, course) ==
    /\ ~(course # "" /\ "ALL" \notin CoursesOrAll(p) /\ course \notin CoursesOrAll(p))
    /\ p.well_formed            \* a malformed regex raises re.error, which is swallowed
    /\ re_search(p.pattern, text)

RECURSIVE check_ng_from(_, _, _, _)
check_ng_from(patterns, i, text, course) ==
    IF i > Len(patterns) THEN NoMatch
    ELSE IF PatternHits(patterns[i], text, course)
         THEN [found |-> TRUE, pattern |-> patterns[i].pattern,
               article_id |-> patterns[i].article_id, category |-> patterns[i].category]
         ELSE check_ng_from(patterns, i + 1, text, course)

\* a matcher that keeps scanning after a hit and returns the last one
check_ng_patterns_LastMatch(patterns, text, course) ==
    IF \A i \in 1..Len(patterns) : ~PatternHits(patterns[i], text, course) THEN NoMatch
    ELSE check_ng_from(patterns,
                       CHOOSE i \in 1..Len(patterns) :
                           /\ PatternHits(patterns[i], text, course)
                           /\ \A k \in (i + 1)..Len(patterns) : ~PatternHits(patterns[k], text, course),
                       text, course)

check_ng_patterns(patterns, text, course) == check_ng_from(patterns, 1, text, course)

-----------------------------------------------------------------------------
(* Step 2: the Semantic Retriever *)

TopK == 3

\* The embedding provider: a bag-of-tokens embedding in two dimensions.
TokenVec(tok) ==
    CASE tok \in {"a", "A"} -> <<1, 0>>
      [] tok = "b" -> <<0, 1>>
      [] tok = "n" -> <<-1, 0>>
      [] OTHER -> <<0, 0>>

RECURSIVE get_embedding(_)
get_embedding(input) ==
    IF input = <<>> THEN <<0, 0>>
    ELSE LET h == TokenVec(Head(input))
             r == get_embedding(Tail(input))
         IN  <<h[1] + r[1], h[2] + r[2]>>

\* _cosine_sim as the exact pair (dot, n1^2 * n2^2); its value is dot / sqrt(nsq),
\* and 0 when either norm is 0
cosine_sim(v1, v2) ==
    LET dot == v1[1] * v2[1] + v1[2] * v2[2]
        n1sq == v1[1] * v1[1] + v1[2] * v1[2]
        n2sq == v2[1] * v2[1] + v2[2] * v2[2]
    IN  IF n1sq # 0 /\ n2sq # 0 THEN [dot |-> dot, nsq |-> n1sq * n2sq]
        ELSE [dot |-> 0, nsq |-> 1]

Sgn(x) == IF x > 0 THEN 1 ELSE IF x < 0 THEN -1 ELSE 0

\* s1 < s2 as real numbers
SimLess(s1, s2) ==
    Sgn(s1.dot) * s1.dot * s1.dot * s2.nsq < Sgn(s2.dot) * s2.dot * s2.dot * s1.nsq

RECURSIVE ISqrtIn(_, _, _)
ISqrtIn(n, lo, hi) ==
    IF lo >= hi THEN lo
    ELSE LET mid == (lo + hi + 1) \div 2
         IN  IF mid * mid <= n THEN ISqrtIn(n, mid, hi) ELSE ISqrtIn(n, lo, mid - 1)

\* round(sim, 3), in thousandths
Round3(s) ==
    LET twice == ISqrtIn((4000000 * s.dot * s.dot) \div s.nsq, 0, 2000)
    IN  Sgn(s.dot) * ((twice + 1) \div 2)

\* a retriever without the course filter
Applicable_All(course) == articles

\* course filter of _find_relevant_articles
Applicable(course) ==
    IF course # ""
    THEN SelectSeq(articles, LAMBDA a : "ALL" \in CoursesOrAll(a) \/ course \in a.courses)
    ELSE articles

EmbedInput(a) == a.content \o a.keywords

\* list.sort(key=sim, reverse=True): stable, descending
RECURSIVE InsertDesc(_, _)
InsertDesc(sorted, x) ==
    IF sorted = <<>> THEN <<x>>
    ELSE IF SimLess(Head(sorted).sim, x.sim) THEN <<x>> \o sorted
         ELSE <<Head(sorted)>> \o InsertDesc(Tail(sorted), x)

RECURSIVE SortDesc(_)
SortDesc(scored) ==
    IF scored = <<>> THEN <<>>
    ELSE InsertDesc(SortDesc(SubSeq(scored, 1, Len(scored) - 1)), scored[Len(scored)])

FirstN(s, n) == SubSeq(s, 1, IF Len(s) < n THEN Len(s) ELSE n)

\* The article ids of arts that are not in cache, in order
Uncached(arts, cache) == SelectSeq(arts, LAMBDA a : a.id \notin DOMAIN cache)

RECURSIVE CacheAll(_, _)
CacheAll(arts, cache) ==
    IF arts = <<>> THEN cache
    ELSE CacheAll(Tail(arts),
                  IF Head(arts).id \in DOMAIN cache THEN cache
                  ELSE cache @@ (Head(arts).id :> get_embedding(EmbedInput(Head(arts)))))

\* the dicts _find_relevant_articles returns for the top-k scored articles
TopDicts(top) ==
    [i \in 1..Len(top) |->
        [id |-> top[i].a.id, article |-> top[i].a.article,
         category |-> top[i].a.category, content |-> top[i].a.content,
         similarity |-> Round3(top[i].sim)]]

Scored(arts, text_vec, cache) ==
    [i \in 1..Len(arts) |-> [a |-> arts[i], sim |-> cosine_sim(text_vec, cache[arts[i].id])]]

Retrieval(raised, n_embed, cache, list) ==
    [raised |-> raised, n_embed |-> n_embed, cache |-> cache, list |-> list]

\* the scoring loop of _find_relevant_articles over arts, of which need are uncached
ScoreAndRank(text, arts, need, top_k, cache, fail_at) ==
    IF fail_at >= 1 /\ fail_at <= 1 + Len(need)
    THEN Retrieval(TRUE, fail_at, CacheAll(FirstN(need, fail_at - 2), cache), <<>>)
    ELSE Retrieval(FALSE, 1 + Len(need), CacheAll(need, cache),
                   TopDicts(FirstN(SortDesc(Scored(arts, get_embedding(text),
                                                   CacheAll(need, cache))), top_k)))

\* a retriever that starts every call with an empty cache
find_relevant_articles_ColdCache(text, course, top_k, cache, fail_at) ==
    ScoreAndRank(text, Applicable(course), Applicable(course), top_k, <<>>, fail_at)

\* _find_relevant_articles(text, course, top_k) on a detector whose cache is `cache`.
\* fail_at = 0: every embeddings.create call succeeds; fail_at = k > 0: the k-th
\* call of this retrieval raises (call 1 embeds the query text, call 1 + j the j-th
\* uncached applicable article).
find_relevant_articles(text, course, top_k, cache, fail_at) ==
    ScoreAndRank(text, Applicable(course), Uncached(Applicable(course), cache),
                 top_k, cache, fail_at)

-----------------------------------------------------------------------------
(* Step 3: the LLM Adjudicator *)

\* JSON values of the model's answer.  A key that the object does not hold is "absent".
JAbsent == [t |-> "absent", b |-> FALSE, n |-> 0, s |-> ""]
JNull == [t |-> "null", b |-> FALSE, n |-> 0, s |-> ""]
JBool(b) == [t |-> "bool", b |-> b, n |-> 0, s |-> ""]
JNum(n) == [t |-> "num", b |-> FALSE, n |-> n, s |-> ""]
JStr(s) == [t |-> "str", b |-> FALSE, n |-> 0, s |-> s]
\* an article_id answer (a string that is parsed)
JId(chars) == [t |-> "str", s |-> chars]
JIdNull == [t |-> "null", s |-> <<>>]
JIdAbsent == [t |-> "absent", s |-> <<>>]

\* bool(x)
PyBool(v) ==
    CASE v.t = "bool" -> v.b
      [] v.t = "num" -> v.n # 0
      [] v.t = "str" -> v.s # ""
      [] OTHER -> FALSE

\* r.get(key, default)
JGet(v, default) == IF v.t = "absent" THEN default ELSE v

Verdict(iv, conf, aid, cat, reason) ==
    [is_violation |-> iv, confidence |-> conf, article_id |-> aid,
     category |-> cat, reason |-> reason]

Verdicts == {
    Verdict(JBool(TRUE), JNum(90), JId(<<"A", "-", "1">>), JStr("spam"), JStr("r1")),
    Verdict(JBool(FALSE), JNum(10), JIdNull, JNull, JStr("r2")),
    Verdict(JBool(TRUE), JAbsent, JId(<<"t", "2">>), JStr("ad"), JAbsent),
    Verdict(JAbsent, JNum(70), JIdAbsent, JAbsent, JStr("r3")),
    Verdict(JStr("false"), JNum(50), JId(<<"A", "-", "1", " ", "x">>), JStr("spam"), JStr("r4")),
    Verdict(JBool(TRUE), JStr("high"), JId(<<"c", "-", "8", "-", "i">>), JStr("drive"), JStr("r5")),
    Verdict(JBool(TRUE), JNull, JId(<<" ", "Z", "-", "9">>), JNull, JStr("r6")),
    Verdict(JNull, JBool(TRUE), JId(<<"1", "-", "i">>), JStr("other"), JNull) }

\* What chat.completions.create does: it raises, or it returns a message content.
\* shape: "empty" (None or blank), "garbage" (not JSON), "array" (JSON, not an object),
\* "object"; fenced: the content is wrapped in a markdown code fence.
LLMReply(shape, fenced, obj) == [kind |-> "content", shape |-> shape, fenced |-> fenced, obj |-> obj]
NoVerdict == Verdict(JAbsent, JAbsent, JIdAbsent, JAbsent, JAbsent)
LLMRaise == [kind |-> "raise", shape |-> "empty", fenced |-> FALSE, obj |-> NoVerdict]
LLMOutcomes ==
    {LLMRaise}
    \cup {LLMReply(sh, FALSE, NoVerdict) : sh \in {"empty", "garbage", "array"}}
    \cup {LLMReply("object", f, v) : f \in BOOLEAN, v \in Verdicts}

\* re.sub(pattern, str(v), out) in _render_template: the message text is used as a
\* replacement template, so a backslash must start a valid escape (here \a, \b, \\)
RECURSIVE BadEscapeFrom(_, _)
BadEscapeFrom(text, i) ==
    IF i > Len(text) THEN FALSE
    ELSE IF text[i] # "\\" THEN BadEscapeFrom(text, i + 1)
    ELSE IF i = Len(text) THEN TRUE
    ELSE IF text[i + 1] \in {"a", "b", "\\"} THEN BadEscapeFrom(text, i + 2)
    ELSE TRUE

render_template_raises(text) == BadEscapeFrom(text, 1)

\* the two detector sources: src/lambda/app_inspect (deployed) and src/app (polling)
Impls == {"lambda", "legacy"}

\* json.loads succeeds and yields a dict; only the polling detector strips a fence first
ParsesToObject(im, llm) == llm.shape = "object" /\ (im = "legacy" \/ ~llm.fenced)

JudgeDict(iv, conf, aid, cat, reason, err) ==
    [is_violation |-> iv, confidence |-> conf, article_id |-> aid,
     category |-> cat, reason |-> reason, error |-> err]

\* an except branch that reports a violation
SafeDefault_Violation(err) ==
    JudgeDict(JBool(TRUE), JNum(0), JIdNull, JNull, JStr("LLM_ERROR"), err)

\* the except branch of _judge_by_llm
SafeDefault(err) == JudgeDict(JBool(FALSE), JNum(0), JIdNull, JNull, JStr("LLM_ERROR"), err)

\* the try body of _judge_by_llm once chat.completions.create was called
judge_reply(im, llm) ==
    IF llm.kind = "raise" THEN SafeDefault("api_error")
    ELSE IF llm.shape = "empty"
         THEN IF im = "lambda"
              THEN JudgeDict(JBool(FALSE), JNum(50), JIdNull, JNull, JStr(""), "")
              ELSE SafeDefault("empty_content_error")
    ELSE IF llm.shape = "array" THEN SafeDefault("attribute_error")
    ELSE IF ~ParsesToObject(im, llm) THEN SafeDefault("json_decode_error")
    ELSE JudgeDict(JGet(llm.obj.is_violation, JBool(FALSE)),
                   JGet(llm.obj.confidence, JNum(50)),
                   JGet(llm.obj.article_id, JIdNull),
                   JGet(llm.obj.category, JNull),
                   JGet(llm.obj.reason, JStr("")), "")

\* the lines of articles_text: the deployed prompt names id, title and content, the
\* polling prompt title and content
PromptArticles(im, arts) ==
    [i \in 1..Len(arts) |->
        <<IF im = "lambda" THEN arts[i].id ELSE <<>>, arts[i].article, arts[i].content>>]

\* _judge_by_llm(text, articles): the deployed detector renders the prompt with
\* _render_template before the try block, the polling detector with an f-string
judge_by_llm(im, text, arts, llm) ==
    IF im = "lambda" /\ render_template_raises(text)
    THEN [raised |-> TRUE, n_chat |-> 0, prompt_articles |-> <<>>, out |-> SafeDefault("")]
    ELSE [raised |-> FALSE, n_chat |-> 1, prompt_articles |-> PromptArticles(im, arts),
          out |-> judge_reply(im, llm)]

\* run_moderation(client, model, guidelines, message_text): is_violation, confidence
\* and article_id of the ModerationResult
run_moderation(llm) ==
    IF llm.kind = "content" /\ llm.shape = "object" /\ ~llm.fenced
    THEN [raised |-> FALSE, failed |-> FALSE,
          is_violation |-> JBool(PyBool(JGet(llm.obj.is_violation, JBool(FALSE)))),
          confidence |-> JGet(llm.obj.confidence, JNum(0)),
          article_id |-> JGet(llm.obj.article_id, JIdNull)]
    ELSE [raised |-> FALSE, failed |-> TRUE, is_violation |-> JBool(FALSE),
          confidence |-> JNum(0), article_id |-> JIdNull]

-----------------------------------------------------------------------------
(* Article-id normalization *)

IsLetter(c) == c \in {"a", "b", "c", "i", "n", "t", "x", "A", "B", "Z"}
IsDigit(c) == c \in {"0", "1", "2", "3", "4", "5", "6", "7", "8", "9"}

RECURSIVE RunLen(_, _, _)
\* the number of consecutive characters of class letters (TRUE) or digits from s[i]
RunLen(s, i, letters) ==
    IF i > Len(s) THEN 0
    ELSE IF (letters /\ IsLetter(s[i])) \/ (~letters /\ IsDigit(s[i]))
         THEN 1 + RunLen(s, i + 1, letters)
         ELSE 0

RECURSIVE LStrip(_)
LStrip(s) == IF s # <<>> /\ Head(s) = " " THEN LStrip(Tail(s)) ELSE s
RECURSIVE RStrip(_)
RStrip(s) == IF s # <<>> /\ s[Len(s)] = " " THEN RStrip(SubSeq(s, 1, Len(s) - 1)) ELSE s
Strip(s) == RStrip(LStrip(s))

LeadingIdRuns(s, nl, nd) ==
    IF nl >= 1 /\ nl + 1 <= Len(s) /\ s[nl + 1] = "-" /\ nd >= 1
    THEN Some(SubSeq(s, 1, nl + 1 + nd))
    ELSE None

LeadingIdAfter(s, nl) == LeadingIdRuns(s, nl, RunLen(s, nl + 2, FALSE))

\* re.match(r"^([A-Za-z]+-\d+)", s): the matched prefix, or None
LeadingId(s) == LeadingIdAfter(s, RunLen(s, 1, TRUE))

\* the title -> id fallback of _normalize_article_id
TitleToId(s1) ==
    IF ~article_title_by_id(s1).some /\ article_id_by_title(s1).some
    THEN Some(article_id_by_title(s1).v)
    ELSE Some(s1)

LeadingIdOr(s0, m) == TitleToId(IF m.some THEN m.v ELSE s0)

NormalizeStripped(s0) == LeadingIdOr(s0, LeadingId(s0))

\* _normalize_article_id(article_id) for the article_id value of the judge's dict
normalize_article_id(v) ==
    IF v.t # "str" \/ v.s = <<>> THEN None ELSE NormalizeStripped(Strip(v.s))

-----------------------------------------------------------------------------
(* The Violation Detector *)

\* float(x) raises ValueError for a non-numeric string and TypeError for None
PyFloatRaises(v) == v.t \in {"str", "null"}
PyFloat(v) == IF v.t = "num" THEN v.n ELSE IF v.t = "bool" /\ v.b THEN 100 ELSE 0

StrOrNone(v) == IF v.t = "str" THEN v.s ELSE NoneStr

Reason(kind, cite, body, pattern) ==
    [kind |-> kind, cite |-> cite, body |-> body, pattern |-> pattern]

DetectionResult(iv, conf, method, aid, cat, reason, step) ==
    [is_violation |-> iv, confidence |-> conf, method |-> method, article_id |-> aid,
     category |-> cat, reason |-> reason, step_stopped |-> step]

\* self._get_article_name(article_id) of the polling detector
get_article_name(aid) ==
    IF aid = <<>> THEN None
    ELSE IF article_title_by_id(aid).some THEN article_title_by_id(aid) ELSE Some(aid)

NoResult == DetectionResult(JBool(FALSE), JNum(0), "", None, NoneStr, Reason("", None, "", <<>>), 0)

DetectCall(outcome, error, result, ng, n_retrieve, n_judge, n_embed, n_chat, top_k, retrieved, judge_in, prompt_articles, judge_out, cache) ==
    [outcome |-> outcome, error |-> error, result |-> result, ng |-> ng,
     n_retrieve |-> n_retrieve, n_judge |-> n_judge, n_embed |-> n_embed,
     n_chat |-> n_chat, top_k |-> top_k, retrieved |-> retrieved,
     judge_in |-> judge_in, prompt_articles |-> prompt_articles,
     judge_out |-> judge_out, cache |-> cache]

\* the NGワード branch of detect
detect_ng(im, ng, cache) ==
    DetectCall("returned", "",
        DetectionResult(JBool(TRUE), JNum(100), "NGWord",
            IF im = "lambda" THEN Some(ng.article_id) ELSE get_article_name(ng.article_id),
            ng.category,
            Reason("ng_pattern",
                   IF im = "lambda" /\ article_title_by_id(ng.article_id).some
                   THEN Some(ng.article_id) ELSE None,
                   "", FirstN(ng.pattern, 50)), 1),
        ng, 0, 0, 0, 0, 0, <<>>, <<>>, <<>>, SafeDefault(""), cache)

\* the skip_llm branch of detect
detect_skip(ng, cache) ==
    DetectCall("returned", "",
        DetectionResult(JBool(FALSE), JNum(0), "NGWord", None, NoneStr,
                        Reason("ng_no_match", None, "", <<>>), 1),
        ng, 0, 0, 0, 0, 0, <<>>, <<>>, <<>>, SafeDefault(""), cache)

\* the DetectionResult the deployed detector builds from the judge's dict, with aid
\* the normalized id
detect_result(ng, rel, j, aid, title) ==
    IF PyFloatRaises(j.out.confidence)
    THEN DetectCall("raised", "float_error", NoResult, ng, 1, 1, rel.n_embed, j.n_chat,
                    TopK, rel.list, rel.list, j.prompt_articles, j.out, rel.cache)
    ELSE DetectCall("returned", "",
             DetectionResult(JBool(PyBool(j.out.is_violation)), JNum(PyFloat(j.out.confidence)),
                 "LLM", aid, StrOrNone(j.out.category),
                 Reason("llm", IF aid.some /\ aid.v # <<>> /\ title.some THEN aid ELSE None,
                        StrOrNone(j.out.reason), <<>>), 3),
             ng, 1, 1, rel.n_embed, j.n_chat, TopK, rel.list, rel.list,
             j.prompt_articles, j.out, rel.cache)

\* the DetectionResult the polling detector builds from the judge's dict
detect_result_legacy(ng, rel, j) ==
    DetectCall("returned", "",
        DetectionResult(j.out.is_violation, j.out.confidence, "LLM",
            IF j.out.article_id.t = "str" THEN get_article_name(j.out.article_id.s) ELSE None,
            StrOrNone(j.out.category),
            Reason("llm", None, StrOrNone(j.out.reason), <<>>), 3),
        ng, 1, 1, rel.n_embed, j.n_chat, TopK, rel.list, rel.list,
        j.prompt_articles, j.out, rel.cache)

TitleOf(aid) == IF aid.some /\ aid.v # <<>> THEN article_title_by_id(aid.v) ELSE None

detect_normalized(ng, rel, j, aid) == detect_result(ng, rel, j, aid, TitleOf(aid))

\* step 3 of detect: judge with the retrieved articles
detect_judged(im, ng, rel, j) ==
    IF j.raised
    THEN DetectCall("raised", "re_error", NoResult, ng, 1, 1, rel.n_embed, 0,
                    TopK, rel.list, rel.list, <<>>, SafeDefault(""), rel.cache)
    ELSE IF im = "lambda"
         THEN detect_normalized(ng, rel, j, normalize_article_id(j.out.article_id))
         ELSE detect_result_legacy(ng, rel, j)

\* step 2 of detect has run: rel is what _find_relevant_articles did
detect_retrieved(im, ng, text, rel, llm) ==
    IF rel.raised
    THEN DetectCall("raised", "embedding_error", NoResult, ng, 1, 0, rel.n_embed, 0,
                    TopK, <<>>, <<>>, <<>>, SafeDefault(""), rel.cache)
    ELSE detect_judged(im, ng, rel, judge_by_llm(im, text, rel.list, llm))

\* steps 2 and 3 of detect
detect_llm(im, ng, text, course, cache, fail_at, llm) ==
    detect_retrieved(im, ng, text,
                     find_relevant_articles(text, course, TopK, cache, fail_at), llm)

detect_matched(im, ng, text, course, cache, skip_llm, fail_at, llm) ==
    IF ng.found THEN detect_ng(im, ng, cache)
    ELSE IF skip_llm THEN detect_skip(ng, cache)
    ELSE detect_llm(im, ng, text, course, cache, fail_at, llm)

\* ViolationDetector.detect(text, course, skip_llm) on a detector with the given
\* patterns and cache; fail_at and llm are what the providers do during the call
detect(im, patterns, cache, text, course, skip_llm, fail_at, llm) ==
    detect_matched(im, check_ng_patterns(patterns, text, course), text, course, cache,
                   skip_llm, fail_at, llm)

\* whether a call with these arguments reaches the providers at all
ReachesProviders(patterns, text, course, skip_llm) ==
    ~check_ng_patterns(patterns, text, course).found /\ ~skip_llm

MaxEmbedCalls == 1 + Len(articles)

NoLLM == LLMReply("empty", FALSE, NoVerdict)

DetIdle ==
    [phase |-> "idle", text |-> <<>>, course |-> "", skip_llm |-> FALSE,
     fail_at |-> 0, llm |-> NoLLM, cache_before |-> <<>>,
     call |-> DetectCall("", "", NoResult, NoMatch, 0, 0, 0, 0, 0, <<>>, <<>>, <<>>,
                         SafeDefault(""), <<>>)]

InitDetector ==
    /\ ledger = <<>>
    /\ click = ClickIdle
    /\ passes = NoPasses
    /\ overlap = FALSE
    /\ sweep = SweepIdle
    /\ req = ReqIdle
    /\ slack = NoSlack
    /\ origin = LinkIdle
    /\ impl \in Impls
    /\ ng_patterns \in PatternFiles
    /\ embedding_cache = <<>>
    /\ det = DetIdle

\* One call of detect on the warm detector instance
Detect(text, course, skip_llm, fail_at, llm) ==
    /\ \E c \in {detect(impl, ng_patterns, embedding_cache, text, course, skip_llm, fail_at, llm)} :
          /\ embedding_cache' = c.cache
          /\ det' = [phase |-> "done", text |-> text, course |-> course,
                     skip_llm |-> skip_llm, fail_at |-> fail_at, llm |-> llm,
                     cache_before |-> embedding_cache, call |-> c]
    /\ UNCHANGED <<impl, ng_patterns, ledger, click, passes, overlap, sweep, req, slack, origin>>

DetectNoProvider ==
    /\ det.phase = "idle"
    /\ \E text \in Texts, course \in Courses, skip_llm \in BOOLEAN :
        /\ ~ReachesProviders(ng_patterns, text, course, skip_llm)
        /\ Detect(text, course, skip_llm, 0, NoLLM)

DetectEmbeddingFails ==
    /\ det.phase = "idle"
    /\ \E text \in Texts, course \in Courses, fail_at \in 1..MaxEmbedCalls :
        /\ ReachesProviders(ng_patterns, text, course, FALSE)
        /\ fail_at <= 1 + Len(Uncached(Applicable(course), embedding_cache))
        /\ Detect(text, course, FALSE, fail_at, NoLLM)

DetectWithLLM ==
    /\ det.phase = "idle"
    /\ \E text \in Texts, course \in Courses, llm \in LLMOutcomes :
        /\ ReachesProviders(ng_patterns, text, course, FALSE)
        /\ Detect(text, course, FALSE, 0, llm)

\* The caller takes the result (or the exception); the detector stays warm
DetectReturn ==
    /\ det.phase = "done"
    /\ det' = DetIdle
    /\ UNCHANGED <<impl, ng_patterns, embedding_cache, ledger, click, passes, overlap, sweep, req, slack, origin>>

\* the largest top_k a caller of the retriever passes
MaxTopK == 6

\* One call of _find_relevant_articles on the warm detector instance, by a caller
\* that chooses top_k
Retrieve ==
    /\ det.phase = "idle"
    /\ \E text \in Texts, course \in Courses, top_k \in 0..MaxTopK, fail_at \in 0..MaxEmbedCalls :
        /\ fail_at <= 1 + Len(Uncached(Applicable(course), embedding_cache))
        /\ \E r \in {find_relevant_articles(text, course, top_k, embedding_cache, fail_at)} :
              /\ embedding_cache' = r.cache
              /\ det' = [phase |-> "retrieved", text |-> text, course |-> course,
                         top_k |-> top_k, fail_at |-> fail_at,
                         cache_before |-> embedding_cache, r |-> r]
    /\ UNCHANGED <<impl, ng_patterns, ledger, click, passes, overlap, sweep, req, slack, origin>>

\* the caller takes the list (or the exception)
RetrieveReturn ==
    /\ det.phase = "retrieved"
    /\ det' = DetIdle
    /\ UNCHANGED <<impl, ng_patterns, embedding_cache, ledger, click, passes, overlap, sweep, req, slack, origin>>

NextRetriever == Retrieve \/ RetrieveReturn

SpecRetriever == InitDetector /\ [][NextRetriever]_vars

\* what the model can write into article_id: an id or a display name of the articles
\* file, bare or with blanks and further text around it
Answers ==
    { pre \o name \o suf :
        name \in {articles[i].id : i \in 1..Len(articles)}
                  \cup {articles[i].article : i \in 1..Len(articles)}
                  \cup {<<"Z", "-", "9">>},
        pre \in {<<>>, <<" ">>},
        suf \in {<<>>, <<" ">>, <<" ", "x">>, <<"x">>, <<"1">>, <<"-", "i">>} }

\* One call of _normalize_article_id
Normalize ==
    /\ det.phase = "idle"
    /\ \E answer \in Answers :
          det' = [phase |-> "normalized", answer |-> answer,
                  out |-> normalize_article_id(JId(answer))]
    /\ UNCHANGED <<impl, ng_patterns, embedding_cache, ledger, click, passes, overlap, sweep, req, slack, origin>>

NormalizeReturn ==
    /\ det.phase = "normalized"
    /\ det' = DetIdle
    /\ UNCHANGED <<impl, ng_patterns, embedding_cache, ledger, click, passes, overlap, sweep, req, slack, origin>>

NextNormalizer == Normalize \/ NormalizeReturn

SpecNormalizer == InitDetector /\ [][NextNormalizer]_vars

NextDetector == DetectNoProvider \/ DetectEmbeddingFails \/ DetectWithLLM \/ DetectReturn

SpecDetector == InitDetector /\ [][NextDetector]_vars

-----------------------------------------------------------------------------
(* Claims about the detector *)

\* a detect call has returned or raised and its record is in det
DetDone == det.phase = "done"

\* some NG pattern applicable to the course matches the text
SomePatternHits == \E i \in 1..Len(ng_patterns) : PatternHits(ng_patterns[i], det.text, det.course)

FirstHit ==
    ng_patterns[CHOOSE i \in 1..Len(ng_patterns) :
                    /\ PatternHits(ng_patterns[i], det.text, det.course)
                    /\ \A k \in 1..(i - 1) : ~PatternHits(ng_patterns[k], det.text, det.course)]

\* C1: whenever an applicable NG pattern matches the text, detect returns
\* is_violation=true, confidence=1.0, method=NGWord, step_stopped=1 with the
\* article_id and the category of the matching pattern, makes no embedding call and
\* no chat-completion call, and leaves the embedding cache as it was.
C1_NGMatchIsDecisive ==
    (DetDone /\ SomePatternHits) =>
        /\ det.call.outcome = "returned"
        /\ det.call.result.is_violation = JBool(TRUE)
        /\ det.call.result.confidence = JNum(100)
        /\ det.call.result.method = "NGWord"
        /\ det.call.result.step_stopped = 1
        /\ det.call.result.article_id = Some(FirstHit.article_id)
        /\ det.call.result.category = FirstHit.category
        /\ det.call.n_embed = 0
        /\ det.call.n_chat = 0
        /\ embedding_cache = det.cache_before

\* the pattern's courses contain "ALL" or the course of the call
AppliesAsStated(p) == "ALL" \in CoursesOrAll(p) \/ det.course \in CoursesOrAll(p)

\* the patterns that apply by that rule, are well-formed and match the text
StatedHits ==
    {i \in 1..Len(ng_patterns) :
        /\ AppliesAsStated(ng_patterns[i])
        /\ ng_patterns[i].well_formed
        /\ re_search(ng_patterns[i].pattern, det.text)}

\* the same, every pattern applying when the call names no course
CodeHits ==
    {i \in 1..Len(ng_patterns) :
        /\ det.course = "" \/ AppliesAsStated(ng_patterns[i])
        /\ ng_patterns[i].well_formed
        /\ re_search(ng_patterns[i].pattern, det.text)}

\* the matcher's answer is the first pattern of the set hits, or none
AnswersFirstOf(hits) ==
    IF hits = {} THEN ~det.call.ng.found
    ELSE \E i \in hits :
            /\ \A k \in hits : i <= k
            /\ det.call.ng.found
            /\ det.call.ng.pattern = ng_patterns[i].pattern
            /\ det.call.ng.article_id = ng_patterns[i].article_id
            /\ det.call.ng.category = ng_patterns[i].category

\* C21 as stated: for every pattern list, text and course, no course included, the
\* matcher returns the first pattern in declaration order whose courses contain
\* "ALL" or the given course and that matches the text without regard to case, and
\* none when there is no such pattern.
C21_AsStated == DetDone => AnswersFirstOf(StatedHits)

\* C21: the matcher returns the first pattern in declaration order that applies and
\* matches the text without regard to case, and none when there is no such pattern;
\* a pattern applies when its courses contain "ALL" or the given course, and every
\* pattern applies when no course is given; a pattern with a malformed regex is
\* passed over and the scan goes on.
C21_FirstApplicableMatch == DetDone => AnswersFirstOf(CodeHits)

\* course DL: the first pattern matches the text but is for GCI only, the second is
\* malformed, and the third is returned, matched in the other case
C21_Witness ==
    /\ DetDone
    /\ ng_patterns = NGPatternsA
    /\ det.course = "DL"
    /\ re_search(ng_patterns[1].pattern, det.text)
    /\ ~ng_patterns[2].well_formed
    /\ det.call.ng.found
    /\ det.call.ng.pattern = ng_patterns[3].pattern
    /\ \A i \in 1..Len(det.text) : det.text[i] # "B"

\* a call of the retriever has returned its list
Retrieved == det.phase = "retrieved" /\ ~det.r.raised

\* the positions in articles.json of the articles that apply to the course of the call
ApplicableAt ==
    {i \in 1..Len(articles) :
        \/ det.course = ""
        \/ "ALL" \in CoursesOrAll(articles[i])
        \/ det.course \in CoursesOrAll(articles[i])}

\* the similarity of the query text and article i
SimOf(i) == cosine_sim(get_embedding(det.text), get_embedding(EmbedInput(articles[i])))

\* the position in articles.json of the k-th article returned, 0 when it is not there
Pos(k) ==
    IF \E i \in 1..Len(articles) : articles[i].id = det.r.list[k].id
    THEN CHOOSE i \in 1..Len(articles) : articles[i].id = det.r.list[k].id
    ELSE 0

\* C22: for every text, course and top_k, find_relevant returns a list of length
\* min(top_k, number of articles applicable to the course) that holds only applicable
\* articles, each once, in descending order of similarity, and no applicable article
\* left out has a higher similarity than one returned.
C22_TopKBySimilarity ==
    Retrieved =>
        /\ Len(det.r.list) = IF det.top_k < Cardinality(ApplicableAt)
                              THEN det.top_k ELSE Cardinality(ApplicableAt)
        /\ \A k \in 1..Len(det.r.list) : Pos(k) \in ApplicableAt
        /\ \A k, m \in 1..Len(det.r.list) :
              k < m => Pos(k) # Pos(m) /\ ~SimLess(SimOf(Pos(k)), SimOf(Pos(m)))
        /\ \A i \in ApplicableAt :
              (\A k \in 1..Len(det.r.list) : Pos(k) # i) =>
                  \A k \in 1..Len(det.r.list) : ~SimLess(SimOf(Pos(k)), SimOf(i))

\* a call for course GCI with top_k = 2 that leaves out an applicable article and
\* returns two articles of different similarity
C22_Witness ==
    /\ Retrieved
    /\ det.course = "GCI"
    /\ det.top_k = 2
    /\ Len(det.r.list) = 2
    /\ SimLess(SimOf(Pos(2)), SimOf(Pos(1)))
    /\ \E i \in ApplicableAt : Pos(1) # i /\ Pos(2) # i /\ SimLess(SimOf(i), SimOf(Pos(2)))
    /\ DOMAIN det.cache_before # {}

ArticleIds == {articles[i].id : i \in 1..Len(articles)}

\* the cache entries the last detect call added
NewEntries == DOMAIN embedding_cache \ DOMAIN det.cache_before

\* the last detect call ran the retrieval and the retrieval returned its list
RetrievalReturned ==
    DetDone /\ det.call.n_retrieve = 1 /\ det.call.error # "embedding_error"

\* what a detect call did with the cache
CacheKeptByCall ==
    DetDone =>
        /\ \A id \in DOMAIN det.cache_before :
              id \in DOMAIN embedding_cache /\ embedding_cache[id] = det.cache_before[id]
        /\ DOMAIN embedding_cache \subseteq ArticleIds
        /\ det.call.n_retrieve = 0 => det.call.n_embed = 0 /\ NewEntries = {}
        /\ det.call.n_retrieve = 1 => det.call.n_embed >= 1
        /\ RetrievalReturned => det.call.n_embed = 1 + Cardinality(NewEntries)
        /\ det.call.n_embed <= 2 + Cardinality(NewEntries)
        /\ RetrievalReturned =>
              det.call.retrieved =
                  find_relevant_articles(det.text, det.course, TopK, <<>>, 0).list

\* no step removes or replaces a cache entry
CacheStep ==
    \A id \in DOMAIN embedding_cache :
        id \in DOMAIN embedding_cache' /\ embedding_cache'[id] = embedding_cache[id]

\* C23: over any sequence of detect calls on one detector instance the embedding
\* cache only grows: an entry stored for an article id is never removed or replaced,
\* so a call embeds only the articles that are not in the cache yet; the query text
\* is embedded on every retrieval and never stored; and the list a retrieval returns
\* is the one it returns on an empty cache.
C23_CacheOnlyGrows == [](CacheKeptByCall) /\ [][CacheStep]_vars

\* a retrieval on a cache that holds some articles, which embeds the missing ones and
\* returns a list
C23_Witness ==
    /\ RetrievalReturned
    /\ DOMAIN det.cache_before # {}
    /\ NewEntries # {}
    /\ det.call.n_embed = 1 + Cardinality(NewEntries)
    /\ det.call.retrieved # <<>>

\* a call of _normalize_article_id has returned
Normalized == det.phase = "normalized"

ArticleTitles == {articles[i].article : i \in 1..Len(articles)}

\* C26: normalization maps an answer that is exactly a loaded article id to that id,
\* an answer that is the display name of a loaded article to the id of that article,
\* and an answer that is an id followed by further text to the leading id; to
\* normalize twice gives what normalizing once gives.
C26_NormalizeArticleId ==
    Normalized =>
        /\ det.answer \in ArticleIds => det.out = Some(det.answer)
        /\ (det.answer \in ArticleTitles /\ det.answer \notin ArticleIds) =>
              det.out = article_id_by_title(det.answer)
        /\ \A id \in ArticleIds :
              ( /\ Len(det.answer) > Len(id) + 1
                /\ SubSeq(det.answer, 1, Len(id) + 1) = id \o <<" ">> ) =>
                  det.out = Some(id)
        /\ det.out.some => normalize_article_id(JId(det.out.v)) = det.out

\* the model answered the last detect call with a JSON verdict that fits the schema,
\* wrapped in a markdown code fence
FencedVerdict ==
    /\ DetDone
    /\ det.call.n_chat = 1
    /\ det.llm.kind = "content" /\ det.llm.shape = "object" /\ det.llm.fenced
    /\ det.llm.obj.is_violation.t = "bool"
    /\ det.llm.obj.confidence.t = "num"

\* C27: for every model output that is a schema-valid JSON verdict wrapped in a
\* markdown code fence, judge returns the verdict it returns for the same JSON
\* without the fence: the fence is stripped before parsing, so a fenced violation
\* verdict does not become the safe default.
C27_FenceStripped ==
    FencedVerdict =>
        /\ det.call.judge_out = judge_reply(impl, [det.llm EXCEPT !.fenced = FALSE])
        /\ det.call.judge_out.is_violation = det.llm.obj.is_violation

\* C2: on the deployed detector, whenever no applicable NG pattern matches and
\* skip_llm is false, detect calls retrieval once with top_k=3, then adjudication once
\* with exactly the list retrieval returned, and returns method=LLM, step_stopped=3
\* with the adjudicator's is_violation and confidence unchanged.
C2_RetrieveThenJudge ==
    (DetDone /\ impl = "lambda" /\ ~SomePatternHits /\ ~det.skip_llm) =>
        /\ det.call.n_retrieve = 1
        /\ det.call.top_k = 3
        /\ det.call.n_judge = 1
        /\ det.call.judge_in = det.call.retrieved
        /\ det.call.outcome = "returned"
        /\ det.call.result.method = "LLM"
        /\ det.call.result.step_stopped = 3
        /\ det.call.result.is_violation = det.call.judge_out.is_violation
        /\ det.call.result.confidence = det.call.judge_out.confidence

\* the chat-completion call of the last detect was made
ChatCalled == DetDone /\ det.call.n_chat = 1

\* json.loads would reject the content the model returned
NotJSON(llm) == llm.kind = "content" /\ (llm.shape \in {"empty", "garbage"} \/ llm.fenced)

\* the dict of the except branch: no violation, zero confidence, no article, no
\* category, the error in the reason
IsSafeDefault(out) ==
    /\ out.is_violation = JBool(FALSE)
    /\ out.confidence = JNum(0)
    /\ out.article_id = JIdNull
    /\ out.category = JNull
    /\ out.reason = JStr("LLM_ERROR")
    /\ out.error # ""

\* C3 as stated: on the deployed detector, whenever the chat-completion call raises or
\* its output cannot be parsed as JSON, _judge_by_llm returns the safe default
\* (is_violation=false, confidence=0, no article, no category, error in the reason)
\* and does not raise.
C3_AsStated ==
    (ChatCalled /\ impl = "lambda" /\ (det.llm.kind = "raise" \/ NotJSON(det.llm))) =>
        /\ det.call.error # "re_error"
        /\ IsSafeDefault(det.call.judge_out)

\* C3: on the deployed detector, whenever the chat-completion call raises or returns a
\* non-empty content that is not a JSON object, _judge_by_llm returns the safe default
\* and does not raise; for an empty content it returns is_violation=false with the
\* default confidence 0.5 and an empty reason; run_moderation likewise returns
\* is_violation=false for every failed call.  In none of these cases is the verdict
\* is_violation=true.
C3_JudgeFailsSafe ==
    (ChatCalled /\ impl = "lambda"
        /\ (det.llm.kind = "raise" \/ NotJSON(det.llm) \/ det.llm.shape = "array")) =>
        /\ det.call.error # "re_error"
        /\ det.call.judge_out.is_violation = JBool(FALSE)
        /\ det.call.judge_out.article_id = JIdNull
        /\ det.call.judge_out.category = JNull
        /\ IF det.llm.kind = "content" /\ det.llm.shape = "empty"
           THEN det.call.judge_out.confidence = JNum(50) /\ det.call.judge_out.reason = JStr("")
           ELSE IsSafeDefault(det.call.judge_out)
        /\ ~run_moderation(det.llm).raised
        /\ run_moderation(det.llm).is_violation = JBool(FALSE)
        /\ run_moderation(det.llm).confidence = JNum(0)

\* the deployed judge got an answer that is not JSON and detect returned no violation
C3_Witness ==
    /\ ChatCalled /\ impl = "lambda"
    /\ det.llm.kind = "content" /\ det.llm.shape = "garbage"
    /\ IsSafeDefault(det.call.judge_out)
    /\ det.call.outcome = "returned"
    /\ det.call.result.is_violation = JBool(FALSE)

\* the model answered with a JSON object whose is_violation is present and not a
\* boolean, or whose confidence is present and not a number
SchemaMisfit ==
    /\ det.llm.kind = "content" /\ det.llm.shape = "object" /\ ~det.llm.fenced
    /\ \/ det.llm.obj.is_violation.t \notin {"bool", "absent"}
       \/ det.llm.obj.confidence.t \notin {"num", "absent"}

\* a provider failed during the classification of the last detect call: an embedding
\* call raised, the chat completion raised, or its answer is not a verdict of the schema
ProviderFailed ==
    \/ det.fail_at > 0
    \/ det.fail_at = 0 /\ (det.llm.kind = "raise" \/ NotJSON(det.llm) \/ SchemaMisfit)

\* C32: for every text that matches no NG pattern, whenever a provider fails during
\* classification (the embedding call of the retrieval step included, and a model
\* answer with a non-numeric confidence or a non-boolean is_violation included),
\* detect does not raise and returns a DetectionResult with is_violation=false.
C32_DetectFailsSafe ==
    (DetDone /\ impl = "lambda" /\ ~det.call.ng.found /\ ~det.skip_llm /\ ProviderFailed) =>
        /\ det.call.outcome = "returned"
        /\ det.call.result.is_violation = JBool(FALSE)

-----------------------------------------------------------------------------
(* The button-click handlers as a state machine *)

\* the ledger holds two staged violations when the admins start clicking
InitAlert ==
    /\ impl = "lambda"
    /\ ng_patterns = <<>>
    /\ embedding_cache = <<>>
    /\ det = DetIdle
    /\ ledger = << Page("P1", "100.1", "Unprocessed", FALSE, NoneStr),
                   Page("P2", "200.2", "Unprocessed", FALSE, NoneStr) >>
    /\ click = ClickIdle
    /\ passes = NoPasses
    /\ overlap = FALSE
    /\ sweep = SweepIdle
    /\ req = ReqIdle
    /\ slack = NoSlack
    /\ origin = LinkIdle

\* One verified button click handled by one of the entry points
Click(via, payload, out) ==
    /\ \E h \in {handle_click(via, payload, out)} :
          /\ ledger' = ApplyUpdates(ledger, h.calls)
          /\ click' = [phase |-> "done", via |-> via, payload |-> payload, out |-> out,
                        ctx |-> IF via = "actions" THEN parse_action_context(payload)
                                ELSE NoContext,
                        h |-> h]
    /\ UNCHANGED <<impl, ng_patterns, embedding_cache, det, passes, overlap, sweep, req, slack, origin>>

ClickApprove ==
    /\ click.phase = "idle"
    /\ \E via \in Vias, payload \in PayloadsFor("approve_violation"), out \in Outcomes :
          Click(via, payload, out)

ClickDismiss ==
    /\ click.phase = "idle"
    /\ \E via \in Vias, payload \in PayloadsFor("dismiss_violation"), out \in Outcomes :
          Click(via, payload, out)

ClickOther ==
    /\ click.phase = "idle"
    /\ \E via \in Vias, payload \in PayloadsFor("approve_warning") \cup PayloadsWithoutAction :
          Click(via, payload, AllOk)

\* a click whose payload carries more than one action element
ClickMulti ==
    /\ click.phase = "idle"
    /\ \E via \in Vias, payload \in PayloadsWithTwoActions : Click(via, payload, AllOk)

\* an approve click after the admin used the dropdowns
ClickSelected ==
    /\ click.phase = "idle"
    /\ \E via \in Vias, payload \in PayloadsWithSelection, out \in Outcomes :
          Click(via, payload, out)

\* the response went back to Slack
ClickReturn ==
    /\ click.phase = "done"
    /\ click' = ClickIdle
    /\ UNCHANGED <<impl, ng_patterns, embedding_cache, det, ledger, passes, overlap, sweep, req, slack, origin>>

NextAlert ==
    ClickApprove \/ ClickDismiss \/ ClickOther \/ ClickMulti \/ ClickSelected \/ ClickReturn

SpecAlert == InitAlert /\ [][NextAlert]_vars

-----------------------------------------------------------------------------
(* Claims about the button-click handlers *)

ClickDone == click.phase = "done"

\* the click is a button click (block_actions, or no type) on the given action id
ClickOn(action_id) ==
    /\ ClickDone
    /\ click.payload.type \in {NoneStr, "block_actions"}
    /\ click.payload.actions # <<>>
    /\ click.payload.actions[1].action_id = action_id

ClickValue == click.payload.actions[1].value

\* the token decodes to a map in which key k has a non-empty value
TokenHas(k) == ClickValue.kind = "object" /\ ~Falsy(TokGet(ClickValue.obj, k))

TokenField(k) == TokGet(ClickValue.obj, k)

HasAdminCoordinates ==
    ~Falsy(click.payload.container.channel_id) /\ ~Falsy(click.payload.container.message_ts)

\* the handler reported success to its caller
ReportsSuccess ==
    IF click.via = "lambda_handler" THEN click.h.body = "OK"
    ELSE click.h.value /\ ~click.h.raised

CallsOf(op) == SelectSeq(click.h.calls, LAMBDA c : c.op = op)

IsReply(c) ==
    /\ c.op = "chat_postMessage"
    /\ c.channel = TokenField("origin_channel")
    /\ c.ts = TokenField("origin_ts")

IsLedgerUpdate(c, status) ==
    c.op = "update_status" /\ c.page = TokenField("notion_page_id") /\ c.status = status

IsAdminEdit(c) ==
    /\ c.op = "chat_update"
    /\ c.channel = click.payload.container.channel_id
    /\ c.ts = click.payload.container.message_ts

FullApprove ==
    /\ ClickOn("approve_violation")
    /\ TokenHas("origin_channel") /\ TokenHas("origin_ts") /\ TokenHas("notion_page_id")
    /\ HasAdminCoordinates

\* C6: an approve whose token has origin_channel, origin_ts and notion_page_id and
\* whose payload has admin-message coordinates, with every external call succeeding,
\* attempts exactly one threaded reply to the origin message, then exactly one ledger
\* update to Approved on notion_page_id, then exactly one admin-message edit, and
\* nothing else.
C6_ApproveOrder ==
    (FullApprove /\ click.out = AllOk) =>
        /\ Len(click.h.calls) = 3
        /\ IsReply(click.h.calls[1])
        /\ IsLedgerUpdate(click.h.calls[2], "Approved")
        /\ IsAdminEdit(click.h.calls[3])

C6_Witness ==
    /\ FullApprove /\ click.out = AllOk /\ click.via = "lambda_handler"
    /\ Len(click.h.calls) = 3
    /\ ledger[1].status = "Approved"

\* C7: when the threaded reply of an approve fails with a not-found error, the approve
\* still updates the ledger record to Approved, still edits the admin message, with a
\* note that the post was gone, and reports success.
C7_ReplyNotFoundContinues ==
    (FullApprove /\ click.out = [AllOk EXCEPT !.post = "not_found"]) =>
        /\ \E i \in 1..Len(click.h.calls) : IsLedgerUpdate(click.h.calls[i], "Approved")
        /\ \E i \in 1..Len(click.h.calls) :
              IsAdminEdit(click.h.calls[i]) /\ click.h.calls[i].content # "approved"
        /\ ReportsSuccess

\* the admin-message edit of the same click when every call succeeds
AllSuccessEdit == handle_click(click.via, click.payload, AllOk).calls[3]

\* C8: when the ledger update of an approve fails after the reply was sent, the
\* admin-message edit is still attempted and its content differs from the edit of the
\* all-success case (it shows that the ledger update failed).
C8_LedgerFailureShown ==
    (FullApprove /\ click.out = [AllOk EXCEPT !.upd = "fail"]) =>
        /\ Len(CallsOf("chat_postMessage")) = 1
        /\ \E i \in 1..Len(click.h.calls) :
              /\ IsAdminEdit(click.h.calls[i])
              /\ click.h.calls[i].content # AllSuccessEdit.content

\* C9: an approve whose token lacks origin_channel or origin_ts, or did not decode to
\* a map, signals failure and performs no chat post, no ledger update and no
\* admin-message edit.
C9_ApproveNeedsOrigin ==
    (ClickOn("approve_violation") /\ ~(TokenHas("origin_channel") /\ TokenHas("origin_ts"))) =>
        /\ click.h.calls = <<>>
        /\ ~ReportsSuccess

C9_Witness ==
    /\ ClickOn("approve_violation")
    /\ TokenHas("origin_channel") /\ ~TokenHas("origin_ts") /\ TokenHas("notion_page_id")
    /\ HasAdminCoordinates
    /\ click.via = "lambda_handler"
    /\ click.h.body = "Missing origin info"

\* C10 as stated: every dismiss posts no message on any path, and with a token
\* carrying notion_page_id it performs exactly one ledger update to Dismissed on that
\* page and then edits the admin message to the dismissed state.
C10_AsStated ==
    ClickOn("dismiss_violation") =>
        /\ CallsOf("chat_postMessage") = <<>>
        /\ TokenHas("notion_page_id") =>
              /\ Len(click.h.calls) = 2
              /\ IsLedgerUpdate(click.h.calls[1], "Dismissed")
              /\ IsAdminEdit(click.h.calls[2]) /\ click.h.calls[2].content = "dismissed"

\* C10: every dismiss posts no message on any path; with a token carrying
\* notion_page_id it performs exactly one ledger update to Dismissed on that page, and
\* then, if the payload has admin-message coordinates, one edit of the admin message
\* to the dismissed state; without the coordinates it edits nothing.
C10_DismissNeverReplies ==
    ClickOn("dismiss_violation") =>
        /\ CallsOf("chat_postMessage") = <<>>
        /\ TokenHas("notion_page_id") =>
              /\ Len(CallsOf("update_status")) = 1
              /\ IsLedgerUpdate(click.h.calls[1], "Dismissed")
              /\ IF HasAdminCoordinates
                 THEN /\ Len(click.h.calls) = 2
                      /\ IsAdminEdit(click.h.calls[2])
                      /\ click.h.calls[2].content = "dismissed"
                 ELSE Len(click.h.calls) = 1

C10_Witness ==
    /\ ClickOn("dismiss_violation") /\ TokenHas("notion_page_id") /\ HasAdminCoordinates
    /\ click.out.upd = "ok"
    /\ Len(click.h.calls) = 2
    /\ ledger[1].status = "Dismissed"

\* C24: after a successful approve through the button flow for a token that carries
\* notion_page_id, the ledger record of that page has status Approved, warning_sent_at
\* set to the time of the approval and responder_id set to the admin who clicked.
C24_ApproveStampsRecord ==
    ( /\ ClickOn("approve_violation")
      /\ ReportsSuccess
      /\ TokenHas("notion_page_id")
      /\ click.payload.user # NoneStr ) =>
        \A i \in 1..Len(ledger) :
            ledger[i].page_id = TokenField("notion_page_id") =>
                /\ ledger[i].status = "Approved"
                /\ ledger[i].warning_sent_at
                /\ ledger[i].responder = click.payload.user

\* the click went through parse_action_context
Parsed == ClickDone /\ click.via = "actions"

\* the reply the approve posted in the thread of the origin message
Warnings == SelectSeq(click.h.calls, LAMBDA c : IsReply(c) /\ c.outcome = "ok")

\* the admin selected a regulation and an article in the dropdowns
SelectionPresent ==
    ~Falsy(click.payload.state.regulation) /\ ~Falsy(click.payload.state.article)

\* nothing is selected and the token carries the id of a known article
DetectedOnly ==
    /\ click.payload.state = NoSelection
    /\ find_article_by_id(TokenField("article_id")) # 0

\* C25: the warning text that approve posts cites the manually selected regulation,
\* article and item when a selection is present in the payload; when nothing is
\* selected and the token carries the detected article_id of a known article, the
\* warning cites that article and not the unknown-regulation placeholder.
C25_WarningCites ==
    (Parsed /\ ClickOn("approve_violation") /\ Warnings # <<>>) =>
        /\ SelectionPresent =>
              Warnings[1].content.ref =
                  format_ref(click.payload.state.regulation, click.payload.state.article,
                             click.payload.state.item)
        /\ DetectedOnly => Warnings[1].content.ref.regulation # "unknown_regulation"

\* C11: parse_action_context returns no ActionContext for a payload whose type is
\* present and not block_actions and for a payload with zero actions; a payload with no
\* type is treated as block_actions; a first action whose value is not valid JSON gives
\* an ActionContext with an empty value map; only the first action element is read.
C11_ParseActionContext ==
    Parsed =>
        /\ click.payload.type \notin {NoneStr, "block_actions"} => ~click.ctx.some
        /\ click.payload.actions = <<>> => ~click.ctx.some
        /\ click.payload.type = NoneStr =>
              click.ctx = parse_action_context([click.payload EXCEPT !.type = "block_actions"])
        /\ (click.payload.type \in {NoneStr, "block_actions"} /\ click.payload.actions # <<>>) =>
              /\ click.ctx.some
              /\ click.ctx.action_id = click.payload.actions[1].action_id
              /\ click.payload.actions[1].value.kind = "garbage" =>
                    click.ctx.value = json_dumps(NoObj)
              /\ click.payload.actions[1].value.kind = "object" =>
                    click.ctx.value = click.payload.actions[1].value
        /\ click.payload.actions # <<>> =>
              click.ctx = parse_action_context(
                              [click.payload EXCEPT !.actions = <<click.payload.actions[1]>>])

\* a payload without a type and with two actions, the first with a value that is not
\* JSON, went through the parser
C11_Witness ==
    /\ Parsed
    /\ click.payload.type = NoneStr
    /\ Len(click.payload.actions) = 2
    /\ click.payload.actions[1].value = ValueGarbage
    /\ click.ctx.some
    /\ click.ctx.value = json_dumps(NoObj)

-----------------------------------------------------------------------------
(* The message-event pass of app_inspect *)

\* conversations_info answers that the monitored channel C1 is named gci-qa
ChannelName == "gci-qa"

\* _detect_course(channel_name) under the default COURSE_CHANNEL_MAP
detect_course(channel_name) == IF channel_name = "gci-qa" THEN "GCI" ELSE ""

\* the pages whose title starts with "<message_ts>:"
PagesOf(pages, message_ts) == SelectSeq(pages, LAMBDA pg : pg.post_id = message_ts)

\* NotionClient.check_duplicate_violation(message_ts): False when the query fails
check_duplicate_violation(pages, message_ts, lookup_ok) ==
    lookup_ok /\ Len(PagesOf(pages, message_ts)) > 0

PageNames == <<"P1", "P2", "P3", "P4">>

\* NotionClient.create_violation_log(...): the new ledger and the page id, or None
create_violation_log(pages, message_ts, create_ok) ==
    IF create_ok
    THEN [pages |-> Append(pages, Page(PageNames[Len(pages) + 1], message_ts,
                                       "Unprocessed", FALSE, NoneStr)),
          page_id |-> PageNames[Len(pages) + 1]]
    ELSE [pages |-> pages, page_id |-> NoneStr]

\* x or ""
OrEmpty(x) == IF x = NoneStr THEN "" ELSE x

\* button_value of notify_admin before json.dumps
button_value(channel_id, message_ts, user_id, result, page_id) ==
    [version |-> "v1", trace_id |-> "T", origin_channel |-> channel_id,
     origin_ts |-> message_ts, origin_user |-> user_id,
     article_id |-> IF result.article_id.some THEN result.article_id.v ELSE <<>>,
     reason |-> OrEmpty(result.category), page_id |-> OrEmpty(page_id)]

\* the approve and dismiss elements of action_elements in notify_admin
action_elements(value) ==
    << Button("approve_warning", value), Button("dismiss_warning", value) >>

\* result.confidence >= _SEVERITY_HIGH raises TypeError for a confidence that is not
\* a number
notify_admin_raises(result) == result.confidence.t \notin {"num", "bool"}

\* notify_admin(...): the alert that reaches the admin channel, if one does
notify_admin(channel_id, message_ts, user_id, result, admin_channel_id, page_id, post_ok) ==
    IF notify_admin_raises(result) \/ ~post_ok THEN NoAlert
    ELSE [posted |-> TRUE, channel |-> admin_channel_id,
          buttons |-> action_elements(json_dumps(
                          button_value(channel_id, message_ts, user_id, result, page_id))),
          page |-> page_id]

FinishRec(pages, cache, detected, violation, created, alert) ==
    [pages |-> pages, cache |-> cache, detected |-> detected, violation |-> violation,
     created |-> created, alert |-> alert]

\* _handle_violation once create_violation_log has answered with cr
handle_violation_created(ts, c, cr, admin_channel_id, post_ok) ==
    FinishRec(cr.pages, c.cache, TRUE, TRUE, cr.page_id,
              IF admin_channel_id = "" THEN NoAlert
              ELSE notify_admin("C1", ts, "U1", c.result, admin_channel_id, cr.page_id, post_ok))

\* _handle_message_event after detector.detect answered with c
handle_detected(pages, ts, c, create_ok, admin_channel_id, post_ok) ==
    IF c.outcome = "raised" THEN FinishRec(pages, c.cache, TRUE, FALSE, NoneStr, NoAlert)
    ELSE IF ~PyBool(c.result.is_violation)
         THEN FinishRec(pages, c.cache, TRUE, FALSE, NoneStr, NoAlert)
    ELSE handle_violation_created(ts, c, create_violation_log(pages, ts, create_ok),
                                  admin_channel_id, post_ok)

\* _handle_message_event from conversations_info on, for a message that is not a
\* duplicate
handle_message_event(im, patterns, cache, pages, ts, text, in) ==
    handle_detected(pages, ts,
        detect(im, patterns, cache, text, detect_course(ChannelName), FALSE,
               in.prov.fail_at, in.prov.llm),
        in.create_ok, IF in.admin = "unset" THEN "" ELSE "ADM", in.admin = "ok")

\* Message events: an ordinary message, or one that the handler filters out
EventKinds == {"message", "bot", "subtype", "blank", "own", "unmonitored"}

Posts == {"100.1", "200.2"}

MsgTexts == {<<"a", "a">>, <<"b">>}

\* what the providers answer during one pass
PassLLM == {LLMReply("object", FALSE, v) : v \in
    { Verdict(JBool(TRUE), JNum(90), JId(<<"A", "-", "1">>), JStr("spam"), JStr("r1")),
      Verdict(JBool(FALSE), JNum(10), JIdNull, JNull, JStr("r2")),
      Verdict(JStr("false"), JNum(50), JId(<<"A", "-", "1", " ", "x">>), JStr("spam"), JStr("r4")),
      Verdict(JBool(TRUE), JStr("high"), JId(<<"c", "-", "8", "-", "i">>), JStr("drive"), JStr("r5")) }}

\* the embedding of the query text fails, or the embeddings succeed and the chat
\* completion answers with llm
PassProviders == {[fail_at |-> 1, llm |-> NoLLM]} \cup {[fail_at |-> 0, llm |-> l] : l \in PassLLM}

\* admin: SLACK_ADMIN_CHANNEL_ID unset, or set with chat_postMessage succeeding or
\* raising SlackApiError
PassInputs ==
    [prov : PassProviders, create_ok : BOOLEAN,
     admin : {"unset", "ok", "slack_error"}]

InitInspect ==
    /\ impl \in Impls
    /\ ng_patterns = NGPatternsA
    /\ embedding_cache = <<>>
    /\ det = DetIdle
    /\ ledger = <<>>
    /\ click = ClickIdle
    /\ passes = NoPasses
    /\ overlap = FALSE
    /\ sweep = SweepIdle
    /\ req = ReqIdle
    /\ slack = NoSlack
    /\ origin = LinkIdle

\* the state of a pass after the filters and the duplicate check
Started(pages, ts, text, kind, lookup_ok) ==
    PassRec(IF kind = "message" /\ ~check_duplicate_violation(pages, ts, lookup_ok)
            THEN "checked" ELSE "done",
            ts, text, kind, Len(PagesOf(pages, ts)),
            kind = "message" /\ check_duplicate_violation(pages, ts, lookup_ok),
            FALSE, FALSE, NoneStr, NoAlert)

\* another pass for the same post stands between its duplicate check and its end
InFlight(p, ts) == \E q \in Passes \ {p} : passes[q].pc = "checked" /\ passes[q].ts = ts

\* A message event arrives: the filters and the duplicate check of _handle_message_event
PassStart(p) ==
    /\ passes[p].pc = "idle"
    /\ \E ts \in Posts, text \in MsgTexts, lookup_ok \in BOOLEAN :
          /\ passes' = [passes EXCEPT ![p] = Started(ledger, ts, text, "message", lookup_ok)]
          /\ overlap' = (overlap \/ InFlight(p, ts))
    /\ UNCHANGED <<impl, ng_patterns, embedding_cache, det, ledger, click, sweep, req, slack, origin>>

\* A message event that the filters of _handle_message_event drop
PassSkip(p) ==
    /\ passes[p].pc = "idle"
    /\ \E ts \in Posts, kind \in EventKinds \ {"message"} :
          passes' = [passes EXCEPT ![p] = Started(ledger, ts, <<>>, kind, TRUE)]
    /\ UNCHANGED <<impl, ng_patterns, embedding_cache, det, ledger, click, overlap, sweep, req, slack, origin>>

\* The rest of the pass: detection, the ledger record and the admin alert
PassFinish(p) ==
    /\ passes[p].pc = "checked"
    /\ Len(ledger) < MaxPages
    /\ \E in \in PassInputs :
        \E f \in {handle_message_event(impl, ng_patterns, embedding_cache, ledger,
                                       passes[p].ts, passes[p].text, in)} :
          /\ ledger' = f.pages
          /\ embedding_cache' = f.cache
          /\ passes' = [passes EXCEPT ![p] =
                PassRec("done", passes[p].ts, passes[p].text, passes[p].kind,
                        passes[p].existing, FALSE, f.detected, f.violation, f.created, f.alert)]
    /\ UNCHANGED <<impl, ng_patterns, det, click, overlap, sweep, req, slack, origin>>

\* handler returns 200
PassReturn(p) ==
    /\ passes[p].pc = "done"
    /\ passes' = [passes EXCEPT ![p] = PassIdle]
    /\ UNCHANGED <<impl, ng_patterns, embedding_cache, det, ledger, click, overlap, sweep, req, slack, origin>>

NextInspect == \E p \in Passes : PassStart(p) \/ PassSkip(p) \/ PassFinish(p) \/ PassReturn(p)

SpecInspect == InitInspect /\ [][NextInspect]_vars

-----------------------------------------------------------------------------
(* Claims about the message-event pass *)

\* pass p handled an ordinary message for which a record existed when it started
LaterPass(p) ==
    passes[p].pc # "idle" /\ passes[p].kind = "message" /\ passes[p].existing > 0

\* C4: in a run where passes for the same post do not overlap, once a record for a
\* post exists every later pass for that post observes the duplicate check as true
\* and performs no detection, no ledger create and no admin alert, so at most one
\* record per post exists.
C4_LaterPassesSkip ==
    ~overlap =>
        /\ \A p \in Passes :
              LaterPass(p) =>
                  /\ passes[p].dup
                  /\ ~passes[p].detected
                  /\ passes[p].created = NoneStr
                  /\ ~passes[p].alert.posted
        /\ \A ts \in Posts : Len(PagesOf(ledger, ts)) <= 1

\* the passes in progress that handled an ordinary message for post ts and ran the
\* duplicate check while the ledger held no record for it
FreshPasses(ts) ==
    {p \in Passes : /\ passes[p].pc # "idle" /\ passes[p].kind = "message"
                    /\ passes[p].ts = ts /\ passes[p].existing = 0}

\* every record for post ts was created by a pass that has not returned yet
CreatorsInProgress(ts) ==
    \A j \in 1..Len(ledger) :
        ledger[j].post_id = ts => \E p \in Passes : passes[p].created = ledger[j].page_id

\* both passes ran the duplicate check for post ts before either created its record,
\* and both created one
RacedTwice(ts) ==
    /\ Len(PagesOf(ledger, ts)) = 2
    /\ \A p \in Passes : /\ passes[p].ts = ts /\ passes[p].existing = 0
                         /\ passes[p].created # NoneStr

\* C29: two records for one post exist only after two passes for that post overlapped,
\* each running the duplicate check before the other created its record; the number of
\* records for a post never exceeds the number of passes whose duplicate check ran
\* while no record for it existed.
C29_DuplicatesOnlyByRace ==
    \A ts \in Posts :
        CreatorsInProgress(ts) =>
            /\ Len(PagesOf(ledger, ts)) >= 2 => (overlap /\ RacedTwice(ts))
            /\ Len(PagesOf(ledger, ts)) <= Cardinality(FreshPasses(ts))

\* the click payload Slack sends when an admin presses button b of a posted alert
PressOf(b, channel) ==
    Payload("block_actions", <<b>>, Container(channel, "900.1"), "U9")

\* the ledger updates a click on b causes
UpdatesOfPress(via, b, channel) ==
    SelectSeq(handle_click(via, PressOf(b, channel), AllOk).calls,
              LAMBDA c : c.op = "update_status")

\* C5: every admin alert the pass posts carries the buttons approve_violation and
\* dismiss_violation, whose value token holds origin_channel, origin_ts and, as
\* notion_page_id, the id the ledger create of the same pass returned; pressing either
\* button makes the action handler update exactly that ledger page.
C5_AlertButtonsBind ==
    \A p \in Passes :
        passes[p].alert.posted =>
            /\ {passes[p].alert.buttons[i].action_id : i \in 1..Len(passes[p].alert.buttons)}
                  = {"approve_violation", "dismiss_violation"}
            /\ \A i \in 1..Len(passes[p].alert.buttons) :
                  LET b == passes[p].alert.buttons[i]
                  IN  /\ b.value.kind = "object"
                      /\ TokGet(b.value.obj, "origin_channel") = "C1"
                      /\ TokGet(b.value.obj, "origin_ts") = passes[p].ts
                      /\ TokGet(b.value.obj, "notion_page_id") = passes[p].created
                      /\ \A via \in Vias :
                            /\ Len(UpdatesOfPress(via, b, passes[p].alert.channel)) = 1
                            /\ UpdatesOfPress(via, b, passes[p].alert.channel)[1].page
                                  = passes[p].created

\* the action ids under which an approve or a dismiss button is emitted or handled
DecisionButtons ==
    {"approve_violation", "dismiss_violation", "approve_warning", "dismiss_warning"}

\* the page id a button token carries, under either of its keys
TokenPage(b) ==
    IF b.value.kind # "object" THEN NoneStr
    ELSE IF ~Falsy(TokGet(b.value.obj, "notion_page_id")) THEN TokGet(b.value.obj, "notion_page_id")
    ELSE TokGet(b.value.obj, "page_id")

\* C31: when the ledger create of a detected violation returns no page id, the admin
\* alert that is posted holds no approve or dismiss button; every approve or dismiss
\* button that is posted carries a token with the non-empty page id of a record that
\* exists in the ledger.
C31_ButtonsNeedRecord ==
    \A p \in Passes :
        passes[p].alert.posted =>
            \A i \in 1..Len(passes[p].alert.buttons) :
                passes[p].alert.buttons[i].action_id \in DecisionButtons =>
                    /\ passes[p].created # NoneStr
                    /\ ~Falsy(TokenPage(passes[p].alert.buttons[i]))
                    /\ \E j \in 1..Len(ledger) :
                          ledger[j].page_id = TokenPage(passes[p].alert.buttons[i])

-----------------------------------------------------------------------------
(* The reminder sweep of app_remind *)

\* REMINDER_HOURS_THRESHOLD, in hours
HoursThreshold == 48

\* the 投稿リンク of a page: absent, text that holds no permalink, or a permalink
NoLink == [kind |-> "none", channel |-> "", ts |-> ""]
BadLink == [kind |-> "garbage", channel |-> "", ts |-> ""]
Permalink(channel, ts) == [kind |-> "permalink", channel |-> channel, ts |-> ts]

\* NotionClient.parse_slack_link(url): None, or the channel id and message ts
parse_slack_link(url) ==
    IF url.kind = "permalink"
    THEN [some |-> TRUE, channel_id |-> url.channel, message_ts |-> url.ts]
    ELSE [some |-> FALSE, channel_id |-> "", message_ts |-> ""]

\* A page of the ledger as the sweep reads it.  shape says whether
\* extract_reminder_fields can read its properties; exists is whether the origin
\* message is still in Slack; warned_at is the hour stored in 警告送信日時
SweepPage(page_id, shape, post_link, exists, status, warning_sent_at, warned_at, reminded) ==
    [page_id |-> page_id, post_id |-> post_link.ts, status |-> status,
     warning_sent_at |-> warning_sent_at, responder |-> NoneStr, shape |-> shape,
     post_link |-> post_link, exists |-> exists, warned_at |-> warned_at,
     reminded |-> reminded]

\* a threshold test that never finds the warning old enough
is_past_threshold_Never(page, now, hours) == FALSE

\* NotionClient.is_past_threshold(warning_sent_at, hours)
is_past_threshold(page, now, hours) ==
    page.warning_sent_at /\ (now - page.warned_at) >= hours

\* NotionClient.query_approved_unreminded()
query_approved_unreminded(pages) ==
    SelectSeq(pages, LAMBDA pg : pg.status = "Approved" /\ ~pg.reminded)

HistoryCall(channel, ts, outcome) ==
    CallRec("conversations_history", channel, ts, "", "", "", FALSE, NoneStr, outcome)
MarkRemindedCall(page, outcome) ==
    CallRec("mark_reminded", "", "", page, "", "", FALSE, NoneStr, outcome)

\* check_message_exists(slack, channel_id, message_ts): a SlackApiError gives False
check_message_exists(exists, outcome) == outcome = "ok" /\ exists

\* what one iteration of the loop did: its calls, the counters it incremented, and
\* whether an exception left the loop
Processed(calls, counted, raised) == [calls |-> calls, counted |-> counted, raised |-> raised]

\* a warning branch that sets the status without recording the warning date
process_warning_Unstamped(page, link, hist, dry_run, out) ==
    IF out.post = "ok"
    THEN Processed(<<hist, PostCall(link.channel_id, link.message_ts, "WARNING_MESSAGE", out.post),
                     UpdateStatusCall(page.page_id, "Approved", FALSE, NoneStr, out.upd)>>,
                   <<"warned">>, FALSE)
    ELSE Processed(<<hist>>, <<"errors">>, FALSE)

\* the warning branch of the loop body
process_warning(page, link, hist, dry_run, out) ==
    IF dry_run THEN Processed(<<hist>>, <<"warned">>, FALSE)
    ELSE IF out.post = "ok"
         THEN Processed(<<hist, PostCall(link.channel_id, link.message_ts, "WARNING_MESSAGE", out.post),
                          UpdateStatusCall(page.page_id, "Approved", TRUE, NoneStr, out.upd)>>,
                        <<"warned">>, FALSE)
    ELSE Processed(<<hist, PostCall(link.channel_id, link.message_ts, "WARNING_MESSAGE", out.post)>>,
                   IF out.post = "slack_error" THEN <<"errors">> ELSE <<>>,
                   out.post # "slack_error")

\* the reminder branch of the loop body
process_reminder(page, link, hist, dry_run, out) ==
    IF dry_run THEN Processed(<<hist>>, <<"reminded">>, FALSE)
    ELSE IF out.post = "ok"
         THEN Processed(<<hist, PostCall(link.channel_id, link.message_ts, "REMINDER_MESSAGE", out.post),
                          MarkRemindedCall(page.page_id, out.upd)>>,
                        IF out.upd = "ok" THEN <<"reminded">> ELSE <<"reminded", "errors">>,
                        FALSE)
    ELSE Processed(<<hist, PostCall(link.channel_id, link.message_ts, "REMINDER_MESSAGE", out.post)>>,
                   IF out.post = "slack_error" THEN <<"errors">> ELSE <<>>,
                   out.post # "slack_error")

\* the body of the loop of process_reminders for one page
process_page(page, link, hist, now, hours, dry_run, out) ==
    IF out.check = "error" THEN Processed(<<hist>>, <<>>, TRUE)
    ELSE IF ~check_message_exists(page.exists, out.check)
         THEN Processed(IF dry_run THEN <<hist>>
                        ELSE <<hist, MarkRemindedCall(page.page_id, out.upd)>>,
                        <<"already_deleted">>, FALSE)
    ELSE IF ~page.warning_sent_at THEN process_warning(page, link, hist, dry_run, out)
    ELSE IF ~is_past_threshold(page, now, hours)
         THEN Processed(<<hist>>, <<"skipped_not_elapsed">>, FALSE)
    ELSE process_reminder(page, link, hist, dry_run, out)

process_record(page, now, hours, dry_run, out) ==
    IF page.shape = "malformed" THEN Processed(<<>>, <<>>, TRUE)
    ELSE IF ~parse_slack_link(page.post_link).some
         THEN Processed(<<>>, <<"skipped_no_link">>, FALSE)
    ELSE process_page(page, parse_slack_link(page.post_link),
                      HistoryCall(parse_slack_link(page.post_link).channel_id,
                                  parse_slack_link(page.post_link).message_ts, out.check),
                      now, hours, dry_run, out)

\* stats[name] += 1 for the counters of one iteration
RECURSIVE Bump(_, _)
Bump(stats, names) ==
    IF names = <<>> THEN stats
    ELSE Bump([stats EXCEPT ![Head(names)] = @ + 1], Tail(names))

\* NotionClient._update_page applied to the ledger for the update_status and
\* mark_reminded calls that the service accepted
RECURSIVE ApplySweepCalls(_, _, _)
ApplySweepCalls(pages, calls, now) ==
    IF calls = <<>> THEN pages
    ELSE LET c == Head(calls)
         IN  ApplySweepCalls(
                 [k \in 1..Len(pages) |->
                     IF c.outcome = "ok" /\ pages[k].page_id = c.page
                     THEN IF c.op = "update_status"
                          THEN [pages[k] EXCEPT !.status = c.status,
                                  !.warning_sent_at = IF c.stamped THEN TRUE ELSE @,
                                  !.warned_at = IF c.stamped THEN now ELSE @]
                          ELSE IF c.op = "mark_reminded"
                               THEN [pages[k] EXCEPT !.reminded = TRUE]
                          ELSE pages[k]
                     ELSE pages[k]],
                 Tail(calls), now)

\* what Slack and Notion answer during one iteration: conversations_history and
\* chat_postMessage succeed, raise SlackApiError or raise another exception; a page
\* update returns True or False
SweepOutcomes ==
    [check : {"ok", "slack_error", "error"}, post : {"ok", "slack_error", "error"},
     upd : {"ok", "fail"}]

\* hours since the warning of a page that has 警告送信日時
WarnedAges == {10, 48, 72}

PageIds == <<"P1", "P2", "P3">>
PostIds == <<"100.1", "200.2", "300.3">>

\* the pages that can stand at position k of the ledger when a sweep runs
SweepPagesAt(k, now) ==
    {SweepPage(PageIds[k], "malformed", NoLink, FALSE, "Approved", FALSE, 0, FALSE)}
    \cup {SweepPage(PageIds[k], "ok", l, FALSE, "Approved", FALSE, 0, FALSE) : l \in {NoLink, BadLink}}
    \cup {SweepPage(PageIds[k], "ok", Permalink("C1", PostIds[k]), e, "Approved", FALSE, 0, FALSE) :
            e \in BOOLEAN}
    \cup {SweepPage(PageIds[k], "ok", Permalink("C1", PostIds[k]), e, "Approved", TRUE, now - a, FALSE) :
            e \in BOOLEAN, a \in WarnedAges}

SweepLedgers(now) ==
    UNION { {pages \in [1..n -> UNION {SweepPagesAt(k, now) : k \in 1..n}] :
                \A k \in 1..n : pages[k] \in SweepPagesAt(k, now)} : n \in 0..MaxPages }

InitSweep ==
    /\ impl = "lambda"
    /\ ng_patterns = <<>>
    /\ embedding_cache = <<>>
    /\ det = DetIdle
    /\ click = ClickIdle
    /\ passes = NoPasses
    /\ overlap = FALSE
    /\ sweep = SweepIdle
    /\ req = ReqIdle
    /\ slack = NoSlack
    /\ origin = LinkIdle
    /\ ledger \in SweepLedgers(SweepIdle.now)

\* lambda_handler of app_remind starts process_reminders: the query of the ledger
SweepStart ==
    /\ sweep.phase = "idle"
    /\ \E query_ok \in BOOLEAN :
          sweep' = IF query_ok
                   THEN [sweep EXCEPT !.phase = "running",
                           !.pages = query_approved_unreminded(ledger), !.i = 1,
                           !.stats = [ZeroStats EXCEPT
                                        !.queried = Len(query_approved_unreminded(ledger))],
                           !.log = <<>>]
                   ELSE [sweep EXCEPT !.phase = "raised", !.status = 200,
                           !.body = "error_handled"]
    /\ UNCHANGED <<impl, ng_patterns, embedding_cache, det, ledger, click, passes, overlap, req, slack, origin>>

\* one iteration of the loop over the queried pages
SweepRecord ==
    /\ sweep.phase = "running"
    /\ sweep.i <= Len(sweep.pages)
    /\ \E out \in SweepOutcomes :
          \E r \in {process_record(sweep.pages[sweep.i], sweep.now, HoursThreshold, FALSE, out)} :
             /\ ledger' = ApplySweepCalls(ledger, r.calls, sweep.now)
             /\ sweep' = IF r.raised
                         THEN [sweep EXCEPT !.phase = "raised", !.log = Append(@, r),
                                 !.status = 200, !.body = "error_handled"]
                         ELSE [sweep EXCEPT !.i = @ + 1, !.log = Append(@, r),
                                 !.stats = Bump(@, r.counted)]
    /\ UNCHANGED <<impl, ng_patterns, embedding_cache, det, click, passes, overlap, req, slack, origin>>

\* the loop is over: process_reminders returns stats and the handler answers
SweepFinish ==
    /\ sweep.phase = "running"
    /\ sweep.i > Len(sweep.pages)
    /\ sweep' = [sweep EXCEPT !.phase = "returned", !.status = 200, !.body = "ok"]
    /\ UNCHANGED <<impl, ng_patterns, embedding_cache, det, ledger, click, passes, overlap, req, slack, origin>>

\* the invocation is over; the scheduler can start the next sweep
SweepEnd ==
    /\ sweep.phase \in {"returned", "raised"}
    /\ sweep' = SweepIdle
    /\ UNCHANGED <<impl, ng_patterns, embedding_cache, det, ledger, click, passes, overlap, req, slack, origin>>

NextSweep == SweepStart \/ SweepRecord \/ SweepFinish \/ SweepEnd

SpecSweep == InitSweep /\ [][NextSweep]_vars

-----------------------------------------------------------------------------
(* Claims about the reminder sweep *)

\* the invocation of the sweep is over: process_reminders returned or raised
SweepOver == sweep.phase \in {"returned", "raised"}

\* the query of the ledger raised, so no record was looked at
QueryFailed == sweep.phase = "raised" /\ sweep.log = <<>>

Queried == 1..Len(sweep.pages)

HasLink(k) == sweep.pages[k].shape = "ok" /\ parse_slack_link(sweep.pages[k].post_link).some

\* the loop body ran for the k-th queried record
Reached(k) == k <= Len(sweep.log)

\* the posts of one kind that the sweep made in the thread of the k-th record
ThreadPosts(k, content) ==
    SelectSeq(sweep.log[k].calls,
              LAMBDA c : /\ c.op = "chat_postMessage" /\ c.content = content
                         /\ c.channel = sweep.pages[k].post_link.channel
                         /\ c.ts = sweep.pages[k].post_link.ts)

AllPosts(k) == SelectSeq(sweep.log[k].calls, LAMBDA c : c.op = "chat_postMessage")

\* the ledger writes of one kind that the sweep made on the page of the k-th record
Writes(k, op) ==
    SelectSeq(sweep.log[k].calls, LAMBDA c : c.op = op /\ c.page = sweep.pages[k].page_id)

AllWrites(k) ==
    SelectSeq(sweep.log[k].calls, LAMBDA c : c.op \in {"update_status", "mark_reminded"})

Elapsed(k) == sweep.now - sweep.pages[k].warned_at

\* C12: in one sweep, a queried record with a parseable link, an existing origin
\* message and warning_sent_at unset causes exactly one warning post in the origin
\* thread and exactly one ledger update that sets warning_sent_at, no write of the
\* reminder flag, no reminder post, and the warned counter incremented by one.
C12_SweepWarnsOnce ==
    SweepOver =>
        \A k \in Queried :
            (HasLink(k) /\ sweep.pages[k].exists /\ ~sweep.pages[k].warning_sent_at) =>
                /\ Reached(k)
                /\ Len(ThreadPosts(k, "WARNING_MESSAGE")) = 1
                /\ Len(AllPosts(k)) = 1
                /\ Len(Writes(k, "update_status")) = 1
                /\ Writes(k, "update_status")[1].stamped
                /\ Len(AllWrites(k)) = 1
                /\ sweep.log[k].counted = <<"warned">>

\* C13: in one sweep, a queried record with an existing origin message and
\* warning_sent_at set gets, when at least threshold_hours have passed since the
\* warning, exactly one reminder post and the reminder flag written (reminded +1);
\* when less time has passed it gets no post and no ledger write and
\* skipped_not_elapsed is incremented by one.
C13_SweepRemindsWhenDue ==
    SweepOver =>
        \A k \in Queried :
            (HasLink(k) /\ sweep.pages[k].exists /\ sweep.pages[k].warning_sent_at) =>
                /\ Reached(k)
                /\ IF Elapsed(k) >= HoursThreshold
                   THEN /\ Len(ThreadPosts(k, "REMINDER_MESSAGE")) = 1
                        /\ Len(AllPosts(k)) = 1
                        /\ Len(Writes(k, "mark_reminded")) = 1
                        /\ Len(AllWrites(k)) = 1
                        /\ sweep.log[k].counted = <<"reminded">>
                   ELSE /\ AllPosts(k) = <<>>
                        /\ AllWrites(k) = <<>>
                        /\ sweep.log[k].counted = <<"skipped_not_elapsed">>

\* C14: in one sweep, a queried record whose origin message no longer exists has its
\* reminder flag written, receives no warning and no reminder post, and increments
\* already_deleted by one, whatever its warning_sent_at is.
C14_SweepClosesDeleted ==
    SweepOver =>
        \A k \in Queried :
            (HasLink(k) /\ ~sweep.pages[k].exists) =>
                /\ Reached(k)
                /\ Len(Writes(k, "mark_reminded")) = 1
                /\ Len(AllWrites(k)) = 1
                /\ AllPosts(k) = <<>>
                /\ sweep.log[k].counted = <<"already_deleted">>

\* an external call of the k-th iteration failed, or the record could not be read
FailedAt(k) ==
    \/ sweep.pages[k].shape = "malformed"
    \/ \E j \in 1..Len(sweep.log[k].calls) : sweep.log[k].calls[j].outcome # "ok"

\* C15: in a sweep over any list of queried records, a failed external call or a
\* malformed record while processing one record is counted in errors and does not
\* stop the sweep: every queried record is processed and the counters are returned.
C15_SweepIsolatesErrors ==
    (SweepOver /\ ~QueryFailed) =>
        /\ sweep.phase = "returned"
        /\ Len(sweep.log) = Len(sweep.pages)
        /\ \A k \in Queried :
              FailedAt(k) => \E j \in 1..Len(sweep.log[k].counted) :
                                 sweep.log[k].counted[j] = "errors"

-----------------------------------------------------------------------------
\* the existence check of the k-th record ended in an error of the platform or of
\* the transport
CheckFailed(k) ==
    \E i \in 1..Len(sweep.log[k].calls) :
        /\ sweep.log[k].calls[i].op = "conversations_history"
        /\ sweep.log[k].calls[i].outcome # "ok"

\* the sweep asked for the reminder flag of the k-th record without a reminder post
ClosedWithoutReminder(k) ==
    /\ Writes(k, "mark_reminded") # <<>>
    /\ ThreadPosts(k, "REMINDER_MESSAGE") = <<>>

\* C28: the sweep marks a record reminded without sending a reminder only when the
\* origin message is really absent; an error raised by the existence check is not
\* taken for a deletion: after it no write of the reminder flag is made, nothing is
\* counted as already_deleted and the record's reminder flag in the ledger is still
\* false.
C28_ErrorIsNotDeletion ==
    \A k \in 1..Len(sweep.log) :
        /\ ClosedWithoutReminder(k) => (~sweep.pages[k].exists /\ ~CheckFailed(k))
        /\ CheckFailed(k) =>
              /\ Writes(k, "mark_reminded") = <<>>
              /\ sweep.log[k].counted # <<"already_deleted">>
              /\ \A j \in 1..Len(ledger) :
                    ledger[j].page_id = sweep.pages[k].page_id =>
                        ledger[j].reminded = sweep.pages[k].reminded

\* the k-th queried record can be read and its 投稿リンク is empty or holds no permalink
LinkUnusable(k) ==
    sweep.pages[k].shape = "ok" /\ ~parse_slack_link(sweep.pages[k].post_link).some

\* the ledger still holds the k-th queried record as the query returned it
Untouched(k) ==
    \E j \in 1..Len(ledger) :
        /\ ledger[j] = sweep.pages[k]
        /\ query_approved_unreminded(<<ledger[j]>>) = <<ledger[j]>>

\* C30: in one sweep, a queried record whose stored deep link is missing or cannot be
\* parsed causes no chat call (no existence check, no warning, no reminder) and no
\* ledger write, increments skipped_no_link by one and no other counter, and stays
\* eligible for later sweeps.
C30_NoLinkSkipped ==
    SweepOver =>
        \A k \in Queried :
            LinkUnusable(k) =>
                /\ Reached(k)
                /\ sweep.log[k].calls = <<>>
                /\ sweep.log[k].counted = <<"skipped_no_link">>
                /\ Untouched(k)

\* the sum of the outcome counters of the sweep
OutcomeSum(stats) ==
    stats.warned + stats.skipped_not_elapsed + stats.skipped_no_link
        + stats.already_deleted + stats.reminded + stats.errors

\* C35: every queried record increments exactly one outcome counter per sweep, so in
\* the vector a sweep returns queried = warned + skipped_not_elapsed + skipped_no_link
\* + already_deleted + reminded + errors, also when sends or ledger writes fail.
C35_CountersAddUp ==
    sweep.phase = "returned" =>
        /\ \A k \in Queried : Len(sweep.log[k].counted) = 1
        /\ sweep.stats.queried = OutcomeSum(sweep.stats)

(* The HTTP entry points of app_inspect and app_alert *)

\* what an entry point hands back to the gateway and what it did on the way: raised
\* is an exception that leaves the function, f the effects of a message-event pass,
\* calls the calls of a button click
Answered(statusCode, body, raised, sig_checked, dup_checked, f, calls) ==
    [statusCode |-> statusCode, body |-> body, raised |-> raised,
     sig_checked |-> sig_checked, dup_checked |-> dup_checked, f |-> f, calls |-> calls]

\* the request bodies of app_inspect: not JSON, JSON that is no object, or an object by
\* its "type" ("event_non_object" is an event_callback whose "event" is no object)
InspectBodies ==
    {"not_json", "non_object", "url_verification", "event_callback", "event_non_object",
     "other_type"}

EventTypes == {"message", "reaction_added"}

InspectRequest(retry, body, sig_ok, event_type, kind, ts, text) ==
    [retry |-> retry, body |-> body, sig_ok |-> sig_ok, event_type |-> event_type,
     kind |-> kind, ts |-> ts, text |-> text]

\* _handle_message_event(ctx, slack_event), whole
message_event(im, patterns, cache, pages, request, lookup_ok, in) ==
    IF request.kind = "message" /\ ~check_duplicate_violation(pages, request.ts, lookup_ok)
    THEN Answered(200, "ok_true", FALSE, TRUE, TRUE,
                  handle_message_event(im, patterns, cache, pages, request.ts, request.text, in),
                  <<>>)
    ELSE Answered(200, "ok_true", FALSE, TRUE, request.kind = "message",
                  FinishRec(pages, cache, FALSE, FALSE, NoneStr, NoAlert), <<>>)

\* the detection of the pass raises
PassRaises(im, patterns, cache, request, in) ==
    detect(im, patterns, cache, request.text, detect_course(ChannelName), FALSE,
           in.prov.fail_at, in.prov.llm).outcome = "raised"

\* a handler that lets the exceptions of _handle_message_event leave the function
handler_Unguarded(request, im, patterns, cache, pages, lookup_ok, in) ==
    IF request.retry
    THEN Answered(200, "ok", FALSE, FALSE, FALSE,
                  FinishRec(pages, cache, FALSE, FALSE, NoneStr, NoAlert), <<>>)
    ELSE IF request.body = "non_object"
    THEN Answered(0, "", TRUE, FALSE, FALSE,
                  FinishRec(pages, cache, FALSE, FALSE, NoneStr, NoAlert), <<>>)
    ELSE IF request.body = "url_verification"
    THEN Answered(200, "challenge", FALSE, FALSE, FALSE,
                  FinishRec(pages, cache, FALSE, FALSE, NoneStr, NoAlert), <<>>)
    ELSE IF ~request.sig_ok
    THEN Answered(401, "Invalid signature", FALSE, TRUE, FALSE,
                  FinishRec(pages, cache, FALSE, FALSE, NoneStr, NoAlert), <<>>)
    ELSE IF request.body = "event_non_object"
    THEN Answered(0, "", TRUE, TRUE, FALSE,
                  FinishRec(pages, cache, FALSE, FALSE, NoneStr, NoAlert), <<>>)
    ELSE IF request.body # "event_callback" \/ request.event_type # "message"
    THEN Answered(200, "ok_true", FALSE, TRUE, FALSE,
                  FinishRec(pages, cache, FALSE, FALSE, NoneStr, NoAlert), <<>>)
    ELSE IF /\ request.kind = "message"
            /\ ~check_duplicate_violation(pages, request.ts, lookup_ok)
            /\ PassRaises(im, patterns, cache, request, in)
    THEN Answered(0, "", TRUE, TRUE, TRUE,
                  FinishRec(pages, cache, TRUE, FALSE, NoneStr, NoAlert), <<>>)
    ELSE message_event(im, patterns, cache, pages, request, lookup_ok, in)

\* a handler that takes a redelivery through the whole pass
handler_RetriesProcessed(request, im, patterns, cache, pages, lookup_ok, in) ==
    IF request.body = "non_object"
    THEN Answered(0, "", TRUE, FALSE, FALSE,
                  FinishRec(pages, cache, FALSE, FALSE, NoneStr, NoAlert), <<>>)
    ELSE IF request.body = "url_verification"
    THEN Answered(200, "challenge", FALSE, FALSE, FALSE,
                  FinishRec(pages, cache, FALSE, FALSE, NoneStr, NoAlert), <<>>)
    ELSE IF ~request.sig_ok
    THEN Answered(401, "Invalid signature", FALSE, TRUE, FALSE,
                  FinishRec(pages, cache, FALSE, FALSE, NoneStr, NoAlert), <<>>)
    ELSE IF request.body = "event_non_object"
    THEN Answered(0, "", TRUE, TRUE, FALSE,
                  FinishRec(pages, cache, FALSE, FALSE, NoneStr, NoAlert), <<>>)
    ELSE IF request.body # "event_callback" \/ request.event_type # "message"
    THEN Answered(200, "ok_true", FALSE, TRUE, FALSE,
                  FinishRec(pages, cache, FALSE, FALSE, NoneStr, NoAlert), <<>>)
    ELSE message_event(im, patterns, cache, pages, request, lookup_ok, in)

\* handler(event, context) of app_inspect: the redelivery check, json.loads with {} for
\* a body that does not parse, the url_verification answer, the signature check, and
\* the message event inside try/except
handler(request, im, patterns, cache, pages, lookup_ok, in) ==
    IF request.retry
    THEN Answered(200, "ok", FALSE, FALSE, FALSE,
                  FinishRec(pages, cache, FALSE, FALSE, NoneStr, NoAlert), <<>>)
    ELSE IF request.body = "non_object"
    THEN Answered(0, "", TRUE, FALSE, FALSE,
                  FinishRec(pages, cache, FALSE, FALSE, NoneStr, NoAlert), <<>>)
    ELSE IF request.body = "url_verification"
    THEN Answered(200, "challenge", FALSE, FALSE, FALSE,
                  FinishRec(pages, cache, FALSE, FALSE, NoneStr, NoAlert), <<>>)
    ELSE IF ~request.sig_ok
    THEN Answered(401, "Invalid signature", FALSE, TRUE, FALSE,
                  FinishRec(pages, cache, FALSE, FALSE, NoneStr, NoAlert), <<>>)
    ELSE IF request.body = "event_non_object"
    THEN Answered(0, "", TRUE, TRUE, FALSE,
                  FinishRec(pages, cache, FALSE, FALSE, NoneStr, NoAlert), <<>>)
    ELSE IF request.body # "event_callback" \/ request.event_type # "message"
    THEN Answered(200, "ok_true", FALSE, TRUE, FALSE,
                  FinishRec(pages, cache, FALSE, FALSE, NoneStr, NoAlert), <<>>)
    ELSE message_event(im, patterns, cache, pages, request, lookup_ok, in)

\* the request bodies of app_alert: no parsable payload, a JSON payload that is no
\* object, or a payload object
AlertBodies == {"not_json", "non_object", "payload"}

AlertRequest(body, sig_ok, payload) == [body |-> body, sig_ok |-> sig_ok, payload |-> payload]

\* an entry point that takes any first action for a dismissal
lambda_handler_event_AnyAction(request, pages, cache, out) ==
    IF request.body = "not_json"
    THEN Answered(400, "Bad Request", FALSE, FALSE, FALSE,
                  FinishRec(pages, cache, FALSE, FALSE, NoneStr, NoAlert), <<>>)
    ELSE IF ~request.sig_ok
    THEN Answered(401, "Invalid signature", FALSE, TRUE, FALSE,
                  FinishRec(pages, cache, FALSE, FALSE, NoneStr, NoAlert), <<>>)
    ELSE IF request.body = "non_object"
    THEN Answered(200, "error_handled", FALSE, TRUE, FALSE,
                  FinishRec(pages, cache, FALSE, FALSE, NoneStr, NoAlert), <<>>)
    ELSE IF request.payload.actions = <<>>
    THEN Answered(200, "OK", FALSE, TRUE, FALSE,
                  FinishRec(pages, cache, FALSE, FALSE, NoneStr, NoAlert), <<>>)
    ELSE IF HandlerTokenRaises(request.payload.actions[1].value)
    THEN Answered(200, "Value parse error", FALSE, TRUE, FALSE,
                  FinishRec(pages, cache, FALSE, FALSE, NoneStr, NoAlert), <<>>)
    ELSE IF request.payload.actions[1].action_id = "approve_violation"
    THEN Answered(200, lambda_handler(request.payload, out).body, FALSE, TRUE, FALSE,
                  FinishRec(pages, cache, FALSE, FALSE, NoneStr, NoAlert),
                  lambda_handler(request.payload, out).calls)
    ELSE Answered(200, lambda_dismiss(request.payload.actions[1].value.obj,
                                      request.payload.container, out).body,
                  FALSE, TRUE, FALSE,
                  FinishRec(pages, cache, FALSE, FALSE, NoneStr, NoAlert),
                  lambda_dismiss(request.payload.actions[1].value.obj,
                                 request.payload.container, out).calls)

\* lambda_handler(event, context) of app_alert, from the raw request: the payload is
\* parsed (400), the signature checked (401), and everything else sits inside the
\* outer try/except that answers 200 "error_handled"
lambda_handler_event(request, pages, cache, out) ==
    IF request.body = "not_json"
    THEN Answered(400, "Bad Request", FALSE, FALSE, FALSE,
                  FinishRec(pages, cache, FALSE, FALSE, NoneStr, NoAlert), <<>>)
    ELSE IF ~request.sig_ok
    THEN Answered(401, "Invalid signature", FALSE, TRUE, FALSE,
                  FinishRec(pages, cache, FALSE, FALSE, NoneStr, NoAlert), <<>>)
    ELSE IF request.body = "non_object"
    THEN Answered(200, "error_handled", FALSE, TRUE, FALSE,
                  FinishRec(pages, cache, FALSE, FALSE, NoneStr, NoAlert), <<>>)
    ELSE Answered(lambda_handler(request.payload, out).status,
                  lambda_handler(request.payload, out).body, FALSE, TRUE, FALSE,
                  FinishRec(pages, cache, FALSE, FALSE, NoneStr, NoAlert),
                  lambda_handler(request.payload, out).calls)

\* the requests that reach app_inspect
InspectRequests ==
    {InspectRequest(retry, body, sig_ok, "message", kind, ts, text) :
        retry \in BOOLEAN, body \in InspectBodies, sig_ok \in BOOLEAN,
        kind \in {"message"}, ts \in Posts, text \in MsgTexts}
    \cup {InspectRequest(FALSE, "event_callback", TRUE, "message", kind, "200.2", <<>>) :
             kind \in EventKinds \ {"message"}}
    \cup {InspectRequest(FALSE, "event_callback", TRUE, "reaction_added", "message", "200.2", <<"b">>)}

\* the payloads of the requests: a click of the admin U9 on the alert 900.1
RequestPayloads ==
    { Payload("block_actions", actions, Container("ADM", "900.1"), "U9") :
        actions \in {<<>>} \cup
            { <<Button(a, v)>> : a \in ActionIds,
                v \in {ValueAbsent, ValueGarbage, json_dumps(FullToken),
                       json_dumps(("notion_page_id" :> "P1"))} } }

\* the requests that reach app_alert
AlertRequests ==
    {AlertRequest("payload", sig_ok, payload) : sig_ok \in BOOLEAN, payload \in RequestPayloads}
    \cup {AlertRequest(body, sig_ok, Payload(NoneStr, <<>>, Container(NoneStr, NoneStr), NoneStr)) :
             body \in AlertBodies \ {"payload"}, sig_ok \in BOOLEAN}

\* the request reaches _handle_message_event
ReachesPass(request) ==
    /\ ~request.retry
    /\ request.sig_ok
    /\ request.body = "event_callback"
    /\ request.event_type = "message"

\* the request reaches the approve or the dismiss branch
ReachesBranch(request) ==
    /\ request.sig_ok
    /\ request.body = "payload"
    /\ request.payload.actions # <<>>

\* the services answer every call of the pass
PassAllOk ==
    [prov |-> [fail_at |-> 0,
               llm |-> LLMReply("object", FALSE,
                          Verdict(JBool(TRUE), JNum(90), JId(<<"A", "-", "1">>), JStr("spam"), JStr("r1")))],
     create_ok |-> TRUE, admin |-> "ok"]

\* one violation is staged in the ledger when the requests start to arrive
InitHandlers ==
    /\ impl \in Impls
    /\ ng_patterns = NGPatternsA
    /\ embedding_cache = <<>>
    /\ det = DetIdle
    /\ ledger = << Page("P1", "100.1", "Unprocessed", FALSE, NoneStr) >>
    /\ click = ClickIdle
    /\ passes = NoPasses
    /\ overlap = FALSE
    /\ sweep = SweepIdle
    /\ req = ReqIdle
    /\ slack = NoSlack
    /\ origin = LinkIdle

\* A request to app_inspect, from its arrival to the return of handler
RequestInspect ==
    /\ req.phase = "idle"
    /\ Len(ledger) < MaxPages
    /\ \E request \in InspectRequests :
       \E lookup_ok \in IF ReachesPass(request) THEN BOOLEAN ELSE {TRUE},
          in \in IF ReachesPass(request) THEN PassInputs ELSE {PassAllOk} :
        \E a \in {handler(request, impl, ng_patterns, embedding_cache, ledger, lookup_ok, in)} :
          /\ ledger' = a.f.pages
          /\ embedding_cache' = a.f.cache
          /\ req' = [phase |-> "done", target |-> "app_inspect", request |-> request,
                     lookup_ok |-> lookup_ok, in |-> in, cache |-> embedding_cache, recorded |-> Len(PagesOf(ledger, request.ts)),
                     a |-> a]
    /\ UNCHANGED <<impl, ng_patterns, det, click, passes, overlap, sweep, slack, origin>>

\* A request to app_alert, from its arrival to the return of lambda_handler
RequestAlert ==
    /\ req.phase = "idle"
    /\ \E request \in AlertRequests :
       \E out \in IF ReachesBranch(request) THEN Outcomes ELSE {AllOk} :
        \E a \in {lambda_handler_event(request, ledger, embedding_cache, out)} :
          /\ ledger' = ApplyUpdates(ledger, a.calls)
          /\ req' = [phase |-> "done", target |-> "app_alert", request |-> request,
                     lookup_ok |-> TRUE, in |-> out, cache |-> embedding_cache, recorded |-> 0, a |-> a]
    /\ UNCHANGED <<impl, ng_patterns, embedding_cache, det, click, passes, overlap, sweep, slack, origin>>

\* the response went back to the gateway
RequestReturn ==
    /\ req.phase = "done"
    /\ req' = ReqIdle
    /\ UNCHANGED <<impl, ng_patterns, embedding_cache, det, ledger, click, passes, overlap, sweep, slack, origin>>

NextHandlers == RequestInspect \/ RequestAlert \/ RequestReturn

SpecHandlers == InitHandlers /\ [][NextHandlers]_vars

-----------------------------------------------------------------------------
(* Claims about the HTTP entry points *)

\* a request was answered and the answer is still in hand
ReqDone == req.phase = "done"

ToInspect == ReqDone /\ req.target = "app_inspect"

ToAlert == ReqDone /\ req.target = "app_alert"

\* the request carries a valid signature and a body that is a JSON object of the
\* expected shape
Validated ==
    /\ req.request.sig_ok
    /\ req.request.body \in {"event_callback", "other_type", "payload"}

\* the handler started no duplicate check, no detection, no ledger write and no chat call
NothingDone ==
    /\ ~req.a.dup_checked
    /\ ~req.a.f.detected
    /\ req.a.f.created = NoneStr
    /\ ~req.a.f.alert.posted
    /\ req.a.calls = <<>>

\* C16: every request that passed the input validation is answered with statusCode
\* 200 by the message-event handler and by the button-click handler, also when the
\* detection, a ledger call or a chat call fails on the way: no failure leaves the
\* handler as another status or as an exception.
C16_ValidatedGets200 ==
    ReqDone /\ Validated => req.a.statusCode = 200 /\ ~req.a.raised

\* a validated message event whose detection raised, answered with 200
C16_Witness ==
    /\ ToInspect
    /\ Validated
    /\ ~req.request.retry
    /\ req.a.f.detected
    /\ PassRaises(impl, ng_patterns, req.cache, req.request, req.in)
    /\ req.a.statusCode = 200

\* the request is a redelivery that app_inspect acknowledges unseen
Redelivery == ToInspect /\ req.request.retry

\* the input is bad: the signature is invalid, the body is no JSON, or the payload is
\* not of the expected shape
BadInput ==
    \/ ~req.request.sig_ok
    \/ req.request.body \in {"not_json", "non_object", "event_non_object"}

\* C17: a request with an invalid signature, a malformed payload or a body that is no
\* JSON is rejected by both handlers with a 4xx status, 401 when the signature is
\* invalid and the body is well formed, and the handler does no detection, no ledger
\* read or write and no chat call for it.
C17_BadInputRejected ==
    ReqDone /\ ~Redelivery /\ BadInput =>
        /\ ~req.a.raised
        /\ req.a.statusCode \in 400..499
        /\ ( ~req.request.sig_ok /\ req.request.body \in {"event_callback", "other_type", "payload"}
               => req.a.statusCode = 401 )
        /\ NothingDone

\* C18: a message event delivered with the x-slack-retry-num header is answered with
\* statusCode 200 and body "ok" at once: no signature check, no duplicate check, no
\* detection, no ledger write and no chat post happen for it.
C18_RetryAcknowledged ==
    Redelivery =>
        /\ req.a.statusCode = 200
        /\ req.a.body = "ok"
        /\ ~req.a.raised
        /\ ~req.a.sig_checked
        /\ NothingDone
        /\ req.a.f.pages = ledger

\* the redelivery of a violating message that is not in the ledger yet and that the
\* handler would have recorded
C18_Witness ==
    /\ Redelivery
    /\ req.request.body = "event_callback"
    /\ req.request.sig_ok
    /\ req.recorded = 0
    /\ req.a.body = "ok"
    /\ handler_RetriesProcessed(req.request, impl, ng_patterns, req.cache, ledger,
                                req.lookup_ok, req.in).f.created # NoneStr

\* detector.detect answered the message of the request with is_violation = True
DetectReturnsTrue ==
    \E c \in {detect(impl, ng_patterns, req.cache, req.request.text, detect_course(ChannelName),
                     FALSE, req.in.prov.fail_at, req.in.prov.llm)} :
        c.outcome # "raised" /\ c.result.is_violation = JBool(TRUE)

\* C19: a pass creates a ledger record and posts an admin alert only for a message
\* without bot_id and subtype, with text that is not blank, not written by the bot
\* itself, in a monitored channel, not recorded yet, and for which detect returned
\* is_violation = True; in every other case the pass creates no record and posts
\* nothing.
C19_RecordsOnlyViolations ==
    ToInspect /\ (req.a.f.created # NoneStr \/ req.a.f.alert.posted) =>
        /\ ReachesPass(req.request)
        /\ req.request.kind = "message"
        /\ req.recorded = 0
        /\ DetectReturnsTrue

\* the first action of the payload is one of the two buttons
KnownAction ==
    /\ req.request.payload.actions # <<>>
    /\ req.request.payload.actions[1].action_id \in {"approve_violation", "dismiss_violation"}

\* C20: a verified button payload whose first action carries an action_id other than
\* approve_violation and dismiss_violation, or that carries no action, is answered
\* with statusCode 200 and causes no ledger update, no chat post and no edit of the
\* admin message.
C20_UnknownActionIgnored ==
    ToAlert /\ Validated /\ ~KnownAction =>
        /\ req.a.statusCode = 200
        /\ req.a.calls = <<>>

\* a verified click on a button of another kind whose token names a page
C20_Witness ==
    /\ ToAlert
    /\ Validated
    /\ req.request.payload.actions # <<>>
    /\ req.request.payload.actions[1].action_id = "approve_warning"
    /\ req.request.payload.actions[1].value.kind = "object"
    /\ ~Falsy(TokGet(req.request.payload.actions[1].value.obj, "notion_page_id"))
    /\ req.a.statusCode = 200
    /\ req.a.body = "OK"

-----------------------------------------------------------------------------
(* The life of a record: approval by a button or by hand, then the sweeps *)

\* the ledger as the detection side left it: every record Unprocessed, with the link
\* to its origin message, no warning date and the reminder flag false
LifeLedgers ==
    { [k \in 1..n |-> SweepPage(PageIds[k], "ok", Permalink("C1", PostIds[k]), TRUE,
                                "Unprocessed", FALSE, 0, FALSE)] : n \in 1..MaxPages }

\* for every record Slack holds the origin thread, empty, and the admin alert with
\* its buttons
InitLifecycle ==
    /\ impl = "lambda"
    /\ ng_patterns = <<>>
    /\ embedding_cache = <<>>
    /\ det = DetIdle
    /\ click = ClickIdle
    /\ passes = NoPasses
    /\ overlap = FALSE
    /\ sweep = SweepIdle
    /\ req = ReqIdle
    /\ ledger \in LifeLedgers
    /\ slack = [k \in 1..Len(ledger) |-> [thread |-> <<>>, buttons |-> TRUE]]
    /\ origin = LinkIdle

\* the token notify_admin would bind to the buttons of the alert for a page, with the
\* keys the action handlers read
LifeToken(page) ==
    [version |-> "v1", trace_id |-> "T", origin_channel |-> page.post_link.channel,
     origin_ts |-> page.post_link.ts, origin_user |-> "U1", notion_page_id |-> page.page_id]

\* a post in an origin thread: an initial warning or a reminder, and who sent it
ThreadPost(kind, by) == [kind |-> kind, by |-> by]

\* the posts that the calls of one invocation added to the thread (channel, ts); the
\* click handlers post warnings only
RECURSIVE PostedTo(_, _, _, _)
PostedTo(calls, channel, ts, by) ==
    IF calls = <<>> THEN <<>>
    ELSE (IF /\ Head(calls).op = "chat_postMessage" /\ Head(calls).outcome = "ok"
             /\ Head(calls).channel = channel /\ Head(calls).ts = ts
          THEN <<ThreadPost(IF by = "sweep" /\ Head(calls).content = "REMINDER_MESSAGE"
                            THEN "reminder" ELSE "warning", by)>>
          ELSE <<>>) \o PostedTo(Tail(calls), channel, ts, by)

\* chat_update replaced the blocks of the admin alert at (channel, ts)
Edited(calls, channel, ts) ==
    \E i \in 1..Len(calls) : /\ calls[i].op = "chat_update" /\ calls[i].outcome = "ok"
                             /\ calls[i].channel = channel /\ calls[i].ts = ts

\* the admin alert of the k-th record
AlertTs(k) == PostIds[k]

\* Slack after the calls of one invocation
SlackAfter(calls, by) ==
    [k \in 1..Len(ledger) |->
        [thread |-> slack[k].thread
                      \o PostedTo(calls, ledger[k].post_link.channel, ledger[k].post_link.ts, by),
         buttons |-> slack[k].buttons /\ ~Edited(calls, "ADM", AlertTs(k))]]

\* An admin sets the status of a record to Approved in the ledger itself
ManualApprove ==
    /\ sweep.phase = "idle"
    /\ \E k \in 1..Len(ledger) :
          /\ ledger[k].status = "Unprocessed"
          /\ ledger' = [ledger EXCEPT ![k].status = "Approved"]
    /\ UNCHANGED <<impl, ng_patterns, embedding_cache, det, click, passes, overlap, sweep, req, slack, origin>>

\* An admin presses a button of the alert of the k-th record while the alert shows
\* its buttons; during says whether a sweep may be running
Press(k, action_id, via, out, during) ==
    /\ slack[k].buttons
    /\ during \/ sweep.phase = "idle"
    /\ \E payload \in {Payload("block_actions",
                               <<Button(action_id, json_dumps(LifeToken(ledger[k])))>>,
                               Container("ADM", AlertTs(k)), "U9")} :
       \E h \in {handle_click(via, payload, out)} :
          /\ ledger' = ApplySweepCalls(ApplyUpdates(ledger, h.calls), h.calls, sweep.now)
          /\ slack' = SlackAfter(h.calls, via)
          /\ click' = [phase |-> "done", via |-> via, payload |-> payload, out |-> out,
                        ctx |-> IF via = "actions" THEN parse_action_context(payload)
                                ELSE NoContext,
                        h |-> h]
    /\ UNCHANGED <<impl, ng_patterns, embedding_cache, det, passes, overlap, sweep, req, origin>>

PressApprove(during) ==
    \E k \in 1..Len(ledger), via \in Vias : Press(k, "approve_violation", via, AllOk, during)

PressDismiss(during) ==
    \E k \in 1..Len(ledger), via \in Vias : Press(k, "dismiss_violation", via, AllOk, during)

\* The author deletes the origin message of a record
DeleteMessage ==
    /\ sweep.phase = "idle"
    /\ \E k \in 1..Len(ledger) :
          /\ ledger[k].exists
          /\ ledger' = [ledger EXCEPT ![k].exists = FALSE]
    /\ UNCHANGED <<impl, ng_patterns, embedding_cache, det, click, passes, overlap, sweep, req, slack, origin>>

\* the hours by which the clock advances between two sweeps, and the age beyond which
\* a warning date is no longer told apart
TickHours == 24
MaxAge == 72

\* Time advances between two sweeps; the clock is kept and the warning dates move
\* back instead
Tick ==
    /\ sweep.phase = "idle"
    /\ \E k \in 1..Len(ledger) :
          ledger[k].warning_sent_at /\ sweep.now - ledger[k].warned_at < MaxAge
    /\ ledger' = [k \in 1..Len(ledger) |->
                    IF ledger[k].warning_sent_at /\ sweep.now - ledger[k].warned_at < MaxAge
                    THEN [ledger[k] EXCEPT !.warned_at = @ - TickHours]
                    ELSE ledger[k]]
    /\ UNCHANGED <<impl, ng_patterns, embedding_cache, det, click, passes, overlap, sweep, req, slack, origin>>

\* the scheduler starts a sweep: the query of the ledger
LifeSweepStart ==
    /\ sweep.phase = "idle"
    /\ query_approved_unreminded(ledger) # <<>>
    /\ sweep' = [sweep EXCEPT !.phase = "running",
                   !.pages = query_approved_unreminded(ledger), !.i = 1,
                   !.stats = [ZeroStats EXCEPT
                                !.queried = Len(query_approved_unreminded(ledger))],
                   !.log = <<>>]
    /\ UNCHANGED <<impl, ng_patterns, embedding_cache, det, ledger, click, passes, overlap, req, slack, origin>>

\* the page of the query result with the origin message as Slack holds it now
AsSlackHolds(page) ==
    [page EXCEPT !.exists = \E j \in 1..Len(ledger) :
                                ledger[j].page_id = page.page_id /\ ledger[j].exists]

\* one iteration of the loop over the queried pages, with the answers of Slack and
\* Notion drawn from outs
LifeSweepRecord(outs) ==
    /\ sweep.phase = "running"
    /\ sweep.i <= Len(sweep.pages)
    /\ \E out \in outs :
          \E r \in {process_record(AsSlackHolds(sweep.pages[sweep.i]), sweep.now,
                                   HoursThreshold, FALSE, out)} :
             /\ ledger' = ApplySweepCalls(ledger, r.calls, sweep.now)
             /\ slack' = SlackAfter(r.calls, "sweep")
             /\ sweep' = IF r.raised
                         THEN [sweep EXCEPT !.phase = "raised", !.log = Append(@, r),
                                 !.status = 200, !.body = "error_handled"]
                         ELSE [sweep EXCEPT !.i = @ + 1, !.log = Append(@, r),
                                 !.stats = Bump(@, r.counted)]
    /\ UNCHANGED <<impl, ng_patterns, embedding_cache, det, click, passes, overlap, req, origin>>

\* every call of the sweep succeeds
SweepAllOk == {[check |-> "ok", post |-> "ok", upd |-> "ok"]}

\* the chat calls of the sweep may fail, every ledger write succeeds
SweepWritesOk == [check : {"ok", "slack_error", "error"}, post : {"ok", "slack_error", "error"},
                  upd : {"ok"}]

\* approvals and sweeps that do not overlap, every call succeeding
NextLifecycle ==
    \/ ManualApprove \/ PressApprove(FALSE) \/ PressDismiss(FALSE) \/ DeleteMessage \/ Tick
    \/ LifeSweepStart \/ LifeSweepRecord(SweepAllOk) \/ SweepFinish \/ SweepEnd

SpecLifecycle == InitLifecycle /\ [][NextLifecycle]_vars

\* the same with chat calls of the sweep that may fail
NextSweeps ==
    \/ ManualApprove \/ PressApprove(FALSE) \/ PressDismiss(FALSE) \/ DeleteMessage \/ Tick
    \/ LifeSweepStart \/ LifeSweepRecord(SweepWritesOk) \/ SweepFinish \/ SweepEnd

SpecSweeps == InitLifecycle /\ [][NextSweeps]_vars

\* clicks that may fall between the query of a running sweep and its iterations
NextInterleaved ==
    \/ ManualApprove \/ PressApprove(TRUE) \/ PressDismiss(TRUE) \/ DeleteMessage \/ Tick
    \/ LifeSweepStart \/ LifeSweepRecord(SweepAllOk) \/ SweepFinish \/ SweepEnd

SpecInterleaved == InitLifecycle /\ [][NextInterleaved]_vars

\* the scheduler keeps invoking the sweep, each invocation runs to its end, and time
\* keeps advancing
SpecLifecycleFair ==
    /\ SpecLifecycle
    /\ WF_vars(LifeSweepStart) /\ WF_vars(LifeSweepRecord(SweepAllOk))
    /\ WF_vars(SweepFinish) /\ WF_vars(SweepEnd) /\ SF_vars(Tick)

-----------------------------------------------------------------------------
(* Claims about the life of a record *)

\* the initial warnings that the origin thread of the k-th record has received
InitialWarnings(k) == SelectSeq(slack[k].thread, LAMBDA m : m.kind = "warning")

Reminders(k) == SelectSeq(slack[k].thread, LAMBDA m : m.kind = "reminder")

\* the posts the sweeper made in the thread of the k-th record
BySweep(k, kind) == SelectSeq(slack[k].thread, LAMBDA m : m.kind = kind /\ m.by = "sweep")

\* the i-th post in the thread of the k-th record is the warning of a button handler
ButtonWarning(k, i) ==
    slack[k].thread[i].kind = "warning" /\ slack[k].thread[i].by \in Vias

\* C33: with approvals and sweeps that do not overlap and calls that all succeed, a
\* record approved through a button, whose handler sent the warning, gets no initial
\* warning from a later sweep, and a record approved by hand gets one from the
\* sweeper: whichever path approved it, the record receives at most one initial
\* warning.
C33_OneInitialWarning ==
    \A k \in 1..Len(ledger) :
        /\ Len(BySweep(k, "warning")) <= 1
        /\ \A i \in 1..Len(slack[k].thread) :
              ButtonWarning(k, i) =>
                  \A j \in (i + 1)..Len(slack[k].thread) : slack[k].thread[j].kind # "warning"

\* the posts of one kind in the calls of the k-th iteration of the running sweep
SentInSweep(k, content) ==
    SelectSeq(sweep.log[k].calls,
              LAMBDA c : c.op = "chat_postMessage" /\ c.outcome = "ok" /\ c.content = content)

\* what holds of the sweeper's posts in every state
SweeperPostsOnce ==
    /\ \A k \in 1..Len(ledger) :
          /\ Len(BySweep(k, "warning")) <= 1
          /\ Len(BySweep(k, "reminder")) <= 1
          /\ BySweep(k, "reminder") # <<>> => ledger[k].warning_sent_at
    /\ \A k \in 1..Len(sweep.log) :
          /\ SentInSweep(k, "REMINDER_MESSAGE") # <<>> => sweep.pages[k].warning_sent_at
          /\ SentInSweep(k, "REMINDER_MESSAGE") = <<>> \/ SentInSweep(k, "WARNING_MESSAGE") = <<>>
          /\ \A j \in 1..Len(sweep.log) : sweep.pages[j].page_id = sweep.pages[k].page_id => j = k

\* a step keeps a reminder flag that is true and adds no post of the sweeper to the
\* thread of its record
RemindedIsFinal ==
    \A k \in 1..Len(ledger) :
        ledger[k].reminded =>
            /\ ledger'[k].reminded
            /\ BySweep(k, "warning")' = BySweep(k, "warning")
            /\ BySweep(k, "reminder")' = BySweep(k, "reminder")

\* C34: over any number of sweeps that do not overlap and whose ledger writes all
\* succeed, each record receives at most one warning and at most one reminder from the
\* sweeper, no reminder is sent before a warning date was recorded, no record is warned
\* and reminded in the same sweep, and once the reminder flag is true it is never set
\* back to false and the sweeper sends the record nothing more.
C34_SweeperSendsOnce == [](SweeperPostsOnce) /\ [][RemindedIsFinal]_vars

\* a record that the sweeper warned in one sweep and reminded in a later one
C34_Witness ==
    \E k \in 1..Len(ledger) :
        /\ slack[k].thread = <<ThreadPost("warning", "sweep"), ThreadPost("reminder", "sweep")>>
        /\ ledger[k].reminded
        /\ sweep.phase = "idle"

\* the step is an iteration of the running sweep
SweepIteration == sweep.phase = "running" /\ Len(sweep'.log) = Len(sweep.log) + 1

\* an iteration of the sweep leaves a record that is Dismissed when the iteration
\* writes as it is
DismissedStays ==
    SweepIteration =>
        \A k \in 1..Len(ledger) :
            ledger[k].status = "Dismissed" => ledger'[k].status = "Dismissed"

\* C36: when a dismiss action falls into a running sweep, the sweeper never writes
\* status Approved over a status that is Dismissed at the time of the write: a record
\* dismissed after the query of the sweep and before the ledger update of its warning
\* branch is still Dismissed after the sweep.
C36_SweepKeepsDismissed == [][DismissedStays]_vars

\* the k-th record is one the sweeper has to deal with
Pending(k) == k <= Len(ledger) /\ ledger[k].status = "Approved" /\ ~ledger[k].reminded

\* the k-th record left the sweeper's hands: its reminder flag is true, or an admin
\* dismissed it
Closed(k) == k <= Len(ledger) /\ (ledger[k].reminded \/ ledger[k].status # "Approved")

MessageExists(k) == k <= Len(ledger) /\ ledger[k].exists

MessageDeleted(k) == k <= Len(ledger) /\ ~ledger[k].exists

WarningRecorded(k) == k <= Len(ledger) /\ ledger[k].warning_sent_at

\* C37: under repeated sweeps, with time advancing and every chat and ledger call
\* succeeding, every record that is Approved with the reminder flag false eventually
\* has warning_sent_at set, as long as its origin message exists, and later has the
\* reminder flag set true; a record whose origin message is deleted eventually has
\* the reminder flag set true (unless an admin dismisses the record first).
C37_SweepsFinishRecords ==
    \A k \in 1..MaxPages :
        /\ (Pending(k) /\ MessageExists(k)) ~>
              (Closed(k) \/ MessageDeleted(k) \/ WarningRecorded(k))
        /\ (Pending(k) /\ MessageExists(k) /\ WarningRecorded(k)) ~>
              (Closed(k) \/ MessageDeleted(k))
        /\ (Pending(k) /\ MessageDeleted(k)) ~> Closed(k)

\* a record approved by hand whose message stayed: warned by one sweep, reminded by a
\* later one after the threshold, and still Approved
C37_Witness ==
    \E k \in 1..Len(ledger) :
        /\ ledger[k].status = "Approved" /\ ledger[k].exists
        /\ ledger[k].warning_sent_at /\ ledger[k].reminded
        /\ sweep.now - ledger[k].warned_at >= HoursThreshold
        /\ Len(Reminders(k)) = 1
        /\ Len(InitialWarnings(k)) = 1

-----------------------------------------------------------------------------
(* Claims that relate the two entry points of app_alert *)

\* what a call does to Slack or to the ledger, apart from the text of a post
Effect(c) ==
    [op |-> c.op, channel |-> c.channel, ts |-> c.ts, page |-> c.page, status |-> c.status,
     stamped |-> c.stamped, responder |-> c.responder, outcome |-> c.outcome]

Effects(calls) == [i \in 1..Len(calls) |-> Effect(calls[i])]

\* C38: for every verified approve_violation or dismiss_violation payload, lambda_handler
\* performs the same sequence of chat posts, ledger updates (same page, same status,
\* same recorded fields) and admin-message edits as handle_approve_violation /
\* handle_dismiss_violation applied to parse_action_context of the same payload,
\* also when notion_page_id is missing and when a chat call fails.
C38_EntryPointsAgree ==
    (ClickOn("approve_violation") \/ ClickOn("dismiss_violation")) =>
        Effects(lambda_handler(click.payload, click.out).calls)
            = Effects(actions_entry(click.payload, click.out).calls)

\* C39: for every payload, parse_action_context returns none or an ActionContext whose
\* value is a key-value map, so the approve and dismiss handlers do not raise when they
\* read the fields of the token, also for a value that is valid JSON and not an object.
C39_ValueIsMap ==
    Parsed =>
        /\ click.ctx.some => click.ctx.value.kind = "object"
        /\ ~click.h.raised

-----------------------------------------------------------------------------
(* The 投稿リンク as text: how the detection side writes it, how it is read back *)

\* the characters the two patterns accept: [A-Z0-9] and \d
DigitChars == {"0", "1", "2", "3", "4", "5", "6", "7", "8", "9"}
UpperChars == {"A", "B", "C", "D", "E", "F", "G", "H", "I", "J", "K", "L", "M",
               "N", "O", "P", "Q", "R", "S", "T", "U", "V", "W", "X", "Y", "Z"}

\* "https://slack.com" and "/archives/", one character per element
LinkHost == <<"h", "t", "t", "p", "s", ":", "/", "/", "s", "l", "a", "c", "k", ".", "c", "o", "m">>
Archives == <<"/", "a", "r", "c", "h", "i", "v", "e", "s", "/">>

\* the longest channel id, seconds part and fraction part that are tried
MaxChannelLen == 2
MaxSecondsLen == 11
MaxFractionLen == 6

\* n digits: the digit fill, then the digit last
Stamp(n, fill, last) == [i \in 1..n |-> IF i < n THEN fill ELSE last]

ChannelIds == SeqsUpTo({"C", "9"}, MaxChannelLen) \ {<<>>}
SecondsParts == {Stamp(n, "1", d) : n \in 1..MaxSecondsLen, d \in {"0", "7"}}
FractionParts == {Stamp(n, "0", d) : n \in 1..MaxFractionLen, d \in {"0", "5"}}

\* a Slack ts: seconds.fraction
MessageTs(seconds, fraction) == seconds \o <<".">> \o fraction

\* message_ts.replace('.', '')
replace_dot(message_ts) == SelectSeq(message_ts, LAMBDA c : c # ".")

\* f"https://slack.com/archives/{channel_id}/p{message_ts.replace('.', '')}"
build_post_link(channel_id, message_ts) ==
    LinkHost \o Archives \o channel_id \o <<"/", "p">> \o replace_dot(message_ts)

\* s holds lit from position i on
StartsWith(s, i, lit) ==
    /\ i + Len(lit) - 1 <= Len(s)
    /\ SubSeq(s, i, i + Len(lit) - 1) = lit

\* the position after the longest run of characters of class that starts at i
RECURSIVE RunEnd(_, _, _)
RunEnd(s, i, class) ==
    IF i <= Len(s) /\ s[i] \in class THEN RunEnd(s, i + 1, class) ELSE i

NoLinkMatch == [some |-> FALSE, g1 |-> <<>>, g2 |-> <<>>]

\* /archives/([A-Z0-9]+)/p(\d+) matched at position i.  "/" is in neither class, so
\* the greedy group 1 can only end where its run ends
MatchAt(s, i) ==
    LET c0 == i + Len(Archives)
        c1 == RunEnd(s, c0, UpperChars \cup DigitChars)
        d0 == c1 + 2
        d1 == RunEnd(s, d0, DigitChars)
    IN  IF /\ StartsWith(s, i, Archives)
           /\ c1 > c0
           /\ StartsWith(s, c1, <<"/", "p">>)
           /\ d1 > d0
        THEN [some |-> TRUE, g1 |-> SubSeq(s, c0, c1 - 1), g2 |-> SubSeq(s, d0, d1 - 1)]
        ELSE NoLinkMatch

\* _SLACK_LINK_PATTERN.search(url): the leftmost match
RECURSIVE SearchFrom(_, _)
SearchFrom(s, i) ==
    IF i > Len(s) THEN NoLinkMatch
    ELSE IF MatchAt(s, i).some THEN MatchAt(s, i)
    ELSE SearchFrom(s, i + 1)

SLACK_LINK_PATTERN_search(url) == SearchFrom(url, 1)

\* raw_ts[:10] and raw_ts[10:] in parse_slack_link
TsSecondsDigits == 10
\* ts_raw[:-6] and ts_raw[-6:] in parse_post_link
TsFractionDigits == 6

NoCoordinates == [some |-> FALSE, channel_id |-> <<>>, message_ts |-> <<>>]

\* parse_slack_link that puts no "." back
parse_slack_link_text_Undotted(url) ==
    IF url = <<>> THEN NoCoordinates
    ELSE LET match == SLACK_LINK_PATTERN_search(url)
         IN  IF ~match.some THEN NoCoordinates
             ELSE [some |-> TRUE, channel_id |-> match.g1, message_ts |-> match.g2]

\* NotionClient.parse_slack_link(url) on the text of the link: None, or channel_id
\* and message_ts (the workspace is not followed)
parse_slack_link_text(url) ==
    IF url = <<>> THEN NoCoordinates
    ELSE LET match == SLACK_LINK_PATTERN_search(url)
             raw_ts == match.g2
         IN  IF ~match.some THEN NoCoordinates
             ELSE [some |-> TRUE, channel_id |-> match.g1,
                   message_ts |-> IF Len(raw_ts) > TsSecondsDigits
                                  THEN SubSeq(raw_ts, 1, TsSecondsDigits) \o <<".">>
                                       \o SubSeq(raw_ts, TsSecondsDigits + 1, Len(raw_ts))
                                  ELSE raw_ts]

\* parse_post_link(post_link) of src/app: (None, None), or channel_id and message_ts
parse_post_link(url) ==
    IF url = <<>> THEN NoCoordinates
    ELSE LET match == SLACK_LINK_PATTERN_search(url)
             ts_raw == match.g2
         IN  IF ~match.some THEN NoCoordinates
             ELSE [some |-> TRUE, channel_id |-> match.g1,
                   message_ts |-> IF Len(ts_raw) > TsFractionDigits
                                  THEN SubSeq(ts_raw, 1, Len(ts_raw) - TsFractionDigits) \o <<".">>
                                       \o SubSeq(ts_raw, Len(ts_raw) - TsFractionDigits + 1, Len(ts_raw))
                                  ELSE ts_raw]

\* an origin message that was flagged: its coordinates, the link stored for it, and
\* what a reader of the link got back
Flagged(channel_id, seconds, fraction) ==
    [phase |-> "flagged", channel_id |-> channel_id, seconds |-> seconds,
     message_ts |-> MessageTs(seconds, fraction), post_link |-> <<>>,
     by |-> "", parsed |-> NoCoordinates]

InitLink ==
    /\ impl = "lambda"
    /\ ng_patterns = <<>>
    /\ embedding_cache = <<>>
    /\ det = DetIdle
    /\ ledger = <<>>
    /\ click = ClickIdle
    /\ passes = NoPasses
    /\ overlap = FALSE
    /\ sweep = SweepIdle
    /\ req = ReqIdle
    /\ slack = NoSlack
    /\ origin \in {Flagged(c, sec, f) : c \in ChannelIds, sec \in SecondsParts, f \in FractionParts}

\* _handle_violation builds post_link for the ledger record
StoreLink ==
    /\ origin.phase = "flagged"
    /\ origin' = [origin EXCEPT !.phase = "stored",
                                !.post_link = build_post_link(origin.channel_id, origin.message_ts)]
    /\ UNCHANGED <<impl, ng_patterns, embedding_cache, det, ledger, click, passes, overlap, sweep, req, slack>>

\* the sweep reads the record: parse_slack_link(fields["post_link"])
SweepParse ==
    /\ origin.phase = "stored"
    /\ origin' = [origin EXCEPT !.phase = "parsed", !.by = "sweep",
                                !.parsed = parse_slack_link_text(origin.post_link)]
    /\ UNCHANGED <<impl, ng_patterns, embedding_cache, det, ledger, click, passes, overlap, sweep, req, slack>>

\* src/app reads the record: parse_post_link(post_link)
AppParse ==
    /\ origin.phase = "stored"
    /\ origin' = [origin EXCEPT !.phase = "parsed", !.by = "app",
                                !.parsed = parse_post_link(origin.post_link)]
    /\ UNCHANGED <<impl, ng_patterns, embedding_cache, det, ledger, click, passes, overlap, sweep, req, slack>>

NextLink == StoreLink \/ SweepParse \/ AppParse

SpecLink == InitLink /\ [][NextLink]_vars

\* the sweep has parsed the stored link of the flagged message
SweepParsed == origin.phase = "parsed" /\ origin.by = "sweep"

\* the coordinates read back are those of the flagged message
SameCoordinates ==
    /\ origin.parsed.some
    /\ origin.parsed.channel_id = origin.channel_id
    /\ origin.parsed.message_ts = origin.message_ts

\* C40 as stated: for every origin message with a channel id of uppercase letters and
\* digits and a timestamp seconds.fraction, parse_slack_link of the stored deep link
\* returns the same channel id and the same timestamp.
C40_LinkRoundTrip_AsStated == SweepParsed => SameCoordinates

\* C40: for every origin message with a channel id of uppercase letters and digits and a
\* timestamp seconds.fraction whose seconds part has exactly ten digits, the sweeper's
\* parse_slack_link applied to the stored deep link returns the same channel id and the
\* same timestamp; the channel id comes back the same for every such timestamp.
C40_LinkRoundTrip ==
    SweepParsed =>
        /\ origin.parsed.some
        /\ origin.parsed.channel_id = origin.channel_id
        /\ Len(origin.seconds) = TsSecondsDigits => SameCoordinates

C40_Witness ==
    /\ SweepParsed
    /\ Len(origin.seconds) = TsSecondsDigits
    /\ Len(origin.message_ts) < TsSecondsDigits + 1 + TsFractionDigits
    /\ origin.post_link = build_post_link(origin.channel_id, origin.message_ts)
    /\ SameCoordinates

====
